---- MODULE Spec2Model ----
(***************************************************************************)
(* Fragment routing and the cross-partition sagas of api.py.               *)
(*                                                                         *)
(* The four partitions (db11, db12 on DBVS1; db21, db22 on DBVS2) are the  *)
(* variable store.  One request is in flight at a time; pc is its position *)
(* in the handler.  Every gateway call that the handlers make is one step, *)
(* and every step may fault: a faulting call raises and leaves the         *)
(* partition unchanged.                                                    *)
(***************************************************************************)
EXTENDS Integers, Sequences, FiniteSets, TLC

VARIABLES
    store,   \* store[db][collection] : id -> [document, metadata]
    pc,      \* position of the request in flight, "idle" when there is none
    op,      \* the handler of the request in flight (or of the last one)
    loc,     \* the handler's local variables
    resp,    \* the response of the last finished request
    pre,     \* the store when the request in flight (or the last one) began
    log,     \* the write calls the request has attempted, in order
    nreq     \* the number of requests begun

vars == <<store, pc, op, loc, resp, pre, log, nreq>>

\* what only the beginning of a request changes
ctx == <<op, pre, nreq>>

----------------------------------------------------------------------------
(* Bounds of the model *)

\* no student request begins once this many requests have begun
MaxRequests == 2

\* no course request begins once this many requests have begun
MaxCourseRequests == 1

----------------------------------------------------------------------------
(* Python values *)

None == "None"

Min(S) == CHOOSE x \in S : \A y \in S : x <= y
Max(S) == CHOOSE x \in S : \A y \in S : x >= y

EmptyMap == [k \in {} |-> None]

Put(m, k, v) == [x \in (DOMAIN m) \cup {k} |-> IF x = k THEN v ELSE m[x]]

Remove(m, ks) == [x \in (DOMAIN m) \ ks |-> m[x]]

\* d.get(k)
Get(m, k) == IF k \in DOMAIN m THEN m[k] ELSE None

\* str(n) and int(s) on the decimal numerals the model uses
Numerals == <<"1", "2", "3", "4", "5", "6">>

Str(n) == IF n = 0 THEN "0" ELSE Numerals[n]

IsNumeral(s) == s = "0" \/ \E n \in 1..Len(Numerals) : Numerals[n] = s

ParseInt(s) == IF s = "0" THEN 0 ELSE CHOOSE n \in 1..Len(Numerals) : Numerals[n] = s

----------------------------------------------------------------------------
(* Fragment map and resolver *)

ServerNames == <<"DBVS1", "DBVS2">>

FragTypes == <<"internal", "external">>

\* the map with the internal ranges drawn one year too wide
FRAGMENTS_overlapping ==
    [DBVS1 |-> [internal |-> [database |-> "db11", year_range |-> <<1, 3>>],
                external |-> [database |-> "db12", year_range |-> <<3, 4>>]],
     DBVS2 |-> [internal |-> [database |-> "db21", year_range |-> <<1, 3>>],
                external |-> [database |-> "db22", year_range |-> <<3, 4>>]]]

FRAGMENTS ==
    [DBVS1 |-> [internal |-> [database |-> "db11", year_range |-> <<1, 2>>],
                external |-> [database |-> "db12", year_range |-> <<3, 4>>]],
     DBVS2 |-> [internal |-> [database |-> "db21", year_range |-> <<1, 2>>],
                external |-> [database |-> "db22", year_range |-> <<3, 4>>]]]

\* the databases of a server, in the iteration order of FRAGMENTS[server]
Databases(server_name) ==
    [i \in 1..Len(FragTypes) |-> FRAGMENTS[server_name][FragTypes[i]].database]

SeqRange(s) == {s[i] : i \in 1..Len(s)}

DBs == SeqRange(Databases("DBVS1")) \cup SeqRange(Databases("DBVS2"))

Collections == {"students", "courses", "exams", "programs", "course_review"}

NoFragment == "no fragment"

resolve_fragment(server_name, study_year) ==
    LET fragments == FRAGMENTS[server_name]
        hits == {i \in 1..Len(FragTypes) :
                    /\ fragments[FragTypes[i]].year_range[1] <= study_year
                    /\ study_year <= fragments[FragTypes[i]].year_range[2]}
    IN  IF hits = {} THEN NoFragment
        ELSE fragments[FragTypes[Min(hits)]].database

----------------------------------------------------------------------------
(* Partition gateway: a collection is a map id -> row.  A collection that  *)
(* does not exist reads as the empty map: every handler treats a failed    *)
(* get_collection exactly as a collection without the row it looks for.    *)

Row(doc, meta) == [document |-> doc, metadata |-> meta]

Rows(st, db, coll) == st[db][coll]

Ids(st, db, coll) == DOMAIN st[db][coll]

CollAdd(st, db, coll, id, doc, meta) ==
    [st EXCEPT ![db][coll] = Put(@, id, Row(doc, meta))]

CollDelete(st, db, coll, ids) ==
    [st EXCEPT ![db][coll] = Remove(@, ids)]

\* update raises when the id is absent
CanUpdate(st, db, coll, id) == id \in Ids(st, db, coll)

CollUpdate(st, db, coll, id, doc, meta) ==
    [st EXCEPT ![db][coll] = Put(@, id, Row(doc, meta))]

EmptyStore == [db \in DBs |-> [c \in Collections |-> EmptyMap]]

----------------------------------------------------------------------------
(* Requests, responses, the log of write calls *)

NoResp == [status |-> 0, detail |-> "none"]

Http(status, detail) == [status |-> status, detail |-> detail]

\* an exception that no handler catches: the framework answers 500
Unhandled == Http(500, "Internal Server Error")

NoLoc == [none |-> TRUE]

\* one attempted write: role is "forward" or "compensate"
Call(kind, role, db, coll, ids, ok) ==
    [call |-> kind, role |-> role, db |-> db, coll |-> coll, ids |-> ids, ok |-> ok]

CourseHandlers == {"delete_course", "move_course", "upgrade_course", "add_course_review"}

\* what the log holds of the reads of a step: an entry if one of them raised
ReadFaults(role, faulted) ==
    IF faulted THEN <<Call("read", role, "any", "any", {}, FALSE)>> ELSE <<>>

Begin(name, faulted) ==
    /\ pc = "idle"
    /\ nreq < (IF name \in CourseHandlers THEN MaxCourseRequests ELSE MaxRequests)
    /\ nreq' = nreq + 1
    /\ op' = name
    /\ pre' = store
    /\ log' = ReadFaults("forward", faulted)

Finish(r) ==
    /\ pc' = "idle"
    /\ resp' = r

----------------------------------------------------------------------------
(* insert_student *)

\* the clock reading of datetime.utcnow()
Now == "now"

\* a JSON value given as study_year: kind is "int", "float" or "str"
Raw(kind, text) == [kind |-> kind, text |-> text]

\* int() of the floats 2.7 and 0.5 that requests give: truncation toward zero
IntOfFloat(text) == IF text = "2.7" THEN 2 ELSE 0

\* lines 107-111: the value is kept if it is an int, else int() is tried:
\* int() of a float truncates it, int() of a str parses a numeral or raises
insert_student_study_year(meta_in) ==
    IF "study_year" \notin DOMAIN meta_in
        THEN [ok |-> FALSE, value |-> 0]
        ELSE LET v == meta_in["study_year"]
             IN  IF v.kind = "int"
                    THEN [ok |-> TRUE, value |-> ParseInt(v.text)]
                 ELSE IF v.kind = "float"
                    THEN [ok |-> TRUE, value |-> IntOfFloat(v.text)]
                 ELSE IF IsNumeral(v.text)
                    THEN [ok |-> TRUE, value |-> ParseInt(v.text)]
                    ELSE [ok |-> FALSE, value |-> 0]

\* final_score: float of DBVS1Metadata
IsFloat(v) == v \in {"9.5", "8.7"}

insert_student_dbvs1_meta(meta_in, study_year) ==
    [final_score |-> Get(meta_in, "final_score"),
     study_year  |-> study_year,
     timestamp   |-> IF "timestamp" \in DOMAIN meta_in
                        THEN meta_in["timestamp"] ELSE Now]

\* dbvs2_meta with study_year taken from the wrong variable
insert_student_dbvs2_meta_wrong_year(meta_in, study_year, student_id_int) ==
    [student_id |-> student_id_int,
     name       |-> Get(meta_in, "name"),
     surname    |-> Get(meta_in, "surname"),
     email      |-> Get(meta_in, "email"),
     study_year |-> student_id_int]

insert_student_dbvs2_meta(meta_in, study_year, student_id_int) ==
    [student_id |-> student_id_int,
     name       |-> Get(meta_in, "name"),
     surname    |-> Get(meta_in, "surname"),
     email      |-> Get(meta_in, "email"),
     study_year |-> study_year]

\* lines 105-133: the response that rejects the request, or NoResp
insert_student_reject(meta_in) ==
    LET y == insert_student_study_year(meta_in)
    IN  IF ~y.ok
            THEN Http(400, "study_year must be an integer")
        ELSE IF y.value \notin {1, 2, 3, 4}
            THEN Http(400, "study_year must be 1, 2, 3, or 4")
        ELSE IF "final_score" \notin DOMAIN meta_in
            THEN Http(400, "Missing required field: final_score for DBVS1 metadata")
        ELSE IF ~IsFloat(meta_in["final_score"])
            THEN Unhandled
        ELSE IF \E k \in {"name", "surname", "email"} : k \notin DOMAIN meta_in
            THEN Http(400, "Missing required fields for DBVS2 metadata")
        ELSE NoResp

\* _allocate_next_student_id: a partition whose scan raises is skipped
allocate_next_student_id(st, skipped) ==
    LET scanned == UNION {Ids(st, db, "students") : db \in DBs \ skipped}
        vals == {ParseInt(rid) : rid \in {r \in scanned : IsNumeral(r)}}
    IN  Max(vals \cup {0}) + 1

AllStudentIds(st) == UNION {Ids(st, db, "students") : db \in DBs}

\* the handler with the check of name, surname and email put after the
\* write to DBVS1
insert_student_begin_late_check(student) ==
    /\ Begin("insert_student", FALSE)
    /\ LET meta_in == student.metadata
           rej == insert_student_reject(meta_in)
           study_year == insert_student_study_year(meta_in).value
       IN  /\ rej # NoResp
           /\ Finish(rej)
           /\ loc' = [document |-> student.document, meta_in |-> meta_in]
           /\ store' = IF rej = Http(400, "Missing required fields for DBVS2 metadata")
                          THEN CollAdd(store, resolve_fragment("DBVS1", study_year),
                                       "students",
                                       Str(allocate_next_student_id(store, {})),
                                       student.document,
                                       insert_student_dbvs1_meta(meta_in, study_year))
                          ELSE store

insert_student_begin(student) ==
    /\ Begin("insert_student", FALSE)
    /\ LET meta_in == student.metadata
           rej == insert_student_reject(meta_in)
           study_year == insert_student_study_year(meta_in).value
       IN  IF rej # NoResp
              THEN /\ Finish(rej)
                   /\ loc' = [document |-> student.document, meta_in |-> meta_in]
              ELSE /\ pc' = "insert_allocate"
                   /\ loc' = [document   |-> student.document,
                              meta_in    |-> meta_in,
                              study_year |-> study_year,
                              db_dbvs1   |-> resolve_fragment("DBVS1", study_year),
                              db_dbvs2   |-> resolve_fragment("DBVS2", study_year),
                              dbvs1_meta |-> insert_student_dbvs1_meta(meta_in, study_year),
                              student_id_int |-> 0,
                              student_id |-> None,
                              dbvs2_meta |-> EmptyMap]
                   /\ resp' = NoResp
    /\ UNCHANGED store

insert_student_allocate(skipped) ==
    /\ pc = "insert_allocate"
    /\ LET n == allocate_next_student_id(store, skipped)
       IN  loc' = [loc EXCEPT !.student_id_int = n,
                              !.student_id = Str(n),
                              !.dbvs2_meta =
                                  insert_student_dbvs2_meta(loc.meta_in, loc.study_year, n)]
    /\ pc' = "insert_dbvs1"
    /\ log' = log \o ReadFaults("forward", skipped # {})
    /\ UNCHANGED <<store, resp, ctx>>

\* the step going on to DBVS2 whether or not the add succeeded
insert_student_add_dbvs1_goes_on(ok) ==
    /\ pc = "insert_dbvs1"
    /\ log' = Append(log, Call("add", "forward", loc.db_dbvs1, "students",
                               {loc.student_id}, ok))
    /\ store' = IF ok THEN CollAdd(store, loc.db_dbvs1, "students", loc.student_id,
                                   loc.document, loc.dbvs1_meta)
                      ELSE store
    /\ pc' = "insert_dbvs2"
    /\ UNCHANGED <<resp, loc, ctx>>

\* lines 177-186
insert_student_add_dbvs1(ok) ==
    /\ pc = "insert_dbvs1"
    /\ log' = Append(log, Call("add", "forward", loc.db_dbvs1, "students",
                               {loc.student_id}, ok))
    /\ IF ok
          THEN /\ store' = CollAdd(store, loc.db_dbvs1, "students", loc.student_id,
                                   loc.document, loc.dbvs1_meta)
               /\ pc' = "insert_dbvs2"
               /\ UNCHANGED resp
          ELSE /\ Finish(Http(500, "Insert into DBVS1 failed"))
               /\ UNCHANGED store
    /\ UNCHANGED <<loc, ctx>>

\* the step reporting a rollback that it does not make
insert_student_add_dbvs2_no_rollback(ok) ==
    /\ pc = "insert_dbvs2"
    /\ log' = Append(log, Call("add", "forward", loc.db_dbvs2, "students",
                               {loc.student_id}, ok))
    /\ IF ok
          THEN /\ store' = CollAdd(store, loc.db_dbvs2, "students", loc.student_id,
                                   loc.document, loc.dbvs2_meta)
               /\ Finish(Http(200, "Student inserted successfully across DBVS1 and DBVS2"))
          ELSE /\ Finish(Http(500, "Insert into DBVS2 failed (rolled back DBVS1)"))
               /\ UNCHANGED store
    /\ UNCHANGED <<loc, ctx>>

\* lines 189-199
insert_student_add_dbvs2(ok) ==
    /\ pc = "insert_dbvs2"
    /\ log' = Append(log, Call("add", "forward", loc.db_dbvs2, "students",
                               {loc.student_id}, ok))
    /\ IF ok
          THEN /\ store' = CollAdd(store, loc.db_dbvs2, "students", loc.student_id,
                                   loc.document, loc.dbvs2_meta)
               /\ Finish(Http(200, "Student inserted successfully across DBVS1 and DBVS2"))
          ELSE /\ pc' = "insert_rollback"
               /\ UNCHANGED <<store, resp>>
    /\ UNCHANGED <<loc, ctx>>

\* the rollback with the delete left out
insert_student_rollback_no_delete(ok) ==
    /\ pc = "insert_rollback"
    /\ log' = Append(log, Call("delete", "compensate", loc.db_dbvs1, "students",
                               {loc.student_id}, ok))
    /\ IF ok
          THEN Finish(Http(500, "Insert into DBVS2 failed (rolled back DBVS1)"))
          ELSE Finish(Http(500, "Insert into DBVS2 failed; Rollback of DBVS1 also failed"))
    /\ UNCHANGED <<store, loc, ctx>>

\* lines 200-214
insert_student_rollback(ok) ==
    /\ pc = "insert_rollback"
    /\ log' = Append(log, Call("delete", "compensate", loc.db_dbvs1, "students",
                               {loc.student_id}, ok))
    /\ IF ok
          THEN /\ store' = CollDelete(store, loc.db_dbvs1, "students", {loc.student_id})
               /\ Finish(Http(500, "Insert into DBVS2 failed (rolled back DBVS1)"))
          ELSE /\ Finish(Http(500, "Insert into DBVS2 failed; Rollback of DBVS1 also failed"))
               /\ UNCHANGED store
    /\ UNCHANGED <<loc, ctx>>

----------------------------------------------------------------------------
(* locate_student of delete_student and upgrade_student_year: the first    *)
(* database of the server, in FRAGMENTS order, whose students collection   *)
(* holds sid.  A database whose get_collection raises is passed over.      *)

NotLocated == [found |-> FALSE]

locate_student(st, server_name, sid, skipped) ==
    LET dbs  == Databases(server_name)
        hits == {i \in 1..Len(dbs) :
                    dbs[i] \notin skipped /\ sid \in Ids(st, dbs[i], "students")}
    IN  IF hits = {} THEN NotLocated
        ELSE LET db_name == dbs[Min(hits)]
                 row == Rows(st, db_name, "students")[sid]
             IN  [found |-> TRUE, db |-> db_name, doc |-> row.document,
                  meta |-> row.metadata]

----------------------------------------------------------------------------
(* delete_student *)

\* the handler removing the record that it found in one domain only
delete_student_begin_orphan_removed(student_id, skipped, raised) ==
    /\ Begin("delete_student", raised \/ skipped # {})
    /\ LET sid == Str(student_id)
           s1 == locate_student(store, "DBVS1", sid, skipped)
           s2 == locate_student(store, "DBVS2", sid, skipped)
       IN  IF raised
              THEN Finish(Unhandled) /\ loc' = [sid |-> sid] /\ UNCHANGED store
           ELSE IF ~s1.found \/ ~s2.found
              THEN /\ Finish(Http(404, "Student not found in all vertical fragments"))
                   /\ loc' = [sid |-> sid]
                   /\ store' = IF s1.found
                                  THEN CollDelete(store, s1.db, "students", {sid})
                               ELSE IF s2.found
                                  THEN CollDelete(store, s2.db, "students", {sid})
                               ELSE store
           ELSE /\ pc' = "delete_dbvs1"
                /\ loc' = [sid |-> sid, s1 |-> s1, s2 |-> s2]
                /\ resp' = NoResp
                /\ UNCHANGED store

\* lines 724-752; raised: a get_client or a get of the scan raised
delete_student_begin(student_id, skipped, raised) ==
    /\ Begin("delete_student", raised \/ skipped # {})
    /\ LET sid == Str(student_id)
           s1 == locate_student(store, "DBVS1", sid, skipped)
           s2 == locate_student(store, "DBVS2", sid, skipped)
       IN  IF raised
              THEN Finish(Unhandled) /\ loc' = [sid |-> sid]
           ELSE IF ~s1.found \/ ~s2.found
              THEN /\ Finish(Http(404, "Student not found in all vertical fragments"))
                   /\ loc' = [sid |-> sid]
           ELSE /\ pc' = "delete_dbvs1"
                /\ loc' = [sid |-> sid, s1 |-> s1, s2 |-> s2]
                /\ resp' = NoResp
    /\ UNCHANGED store

\* lines 755-760
delete_student_delete_dbvs1(ok) ==
    /\ pc = "delete_dbvs1"
    /\ log' = Append(log, Call("delete", "forward", loc.s1.db, "students", {loc.sid}, ok))
    /\ IF ok
          THEN /\ store' = CollDelete(store, loc.s1.db, "students", {loc.sid})
               /\ pc' = "delete_dbvs2"
               /\ UNCHANGED resp
          ELSE /\ Finish(Http(500, "Failed to delete from DBVS1"))
               /\ UNCHANGED store
    /\ UNCHANGED <<loc, ctx>>

\* lines 762-766, 774
delete_student_delete_dbvs2(ok) ==
    /\ pc = "delete_dbvs2"
    /\ log' = Append(log, Call("delete", "forward", loc.s2.db, "students", {loc.sid}, ok))
    /\ IF ok
          THEN /\ store' = CollDelete(store, loc.s2.db, "students", {loc.sid})
               /\ Finish(Http(200, "Student deleted successfully"))
          ELSE /\ pc' = "delete_rollback"
               /\ UNCHANGED <<store, resp>>
    /\ UNCHANGED <<loc, ctx>>

\* the rollback re-inserting the snapshot of the other domain
delete_student_rollback_wrong_snapshot(ok) ==
    /\ pc = "delete_rollback"
    /\ log' = Append(log, Call("add", "compensate", loc.s1.db, "students", {loc.sid}, ok))
    /\ store' = IF ok
                   THEN CollAdd(store, loc.s1.db, "students", loc.sid,
                                loc.s2.doc, loc.s2.meta)
                   ELSE store
    /\ Finish(Http(500, "Failed to delete from DBVS2"))
    /\ UNCHANGED <<loc, ctx>>

\* lines 767-772: a failure of the re-insert is swallowed
delete_student_rollback(ok) ==
    /\ pc = "delete_rollback"
    /\ log' = Append(log, Call("add", "compensate", loc.s1.db, "students", {loc.sid}, ok))
    /\ store' = IF ok
                   THEN CollAdd(store, loc.s1.db, "students", loc.sid,
                                loc.s1.doc, loc.s1.meta)
                   ELSE store
    /\ Finish(Http(500, "Failed to delete from DBVS2"))
    /\ UNCHANGED <<loc, ctx>>

----------------------------------------------------------------------------
(* upgrade_student_year *)

\* to_int_year of metadata.get("study_year")
HasYear(meta) == "study_year" \in DOMAIN meta

\* lines 939-993: the response that rejects the request, or NoResp
upgrade_student_year_reject(s1, s2) ==
    IF ~s1.found \/ ~s2.found
        THEN Http(404, "Student not found in all vertical fragments")
    ELSE IF ~HasYear(s1.meta) \/ ~HasYear(s2.meta)
        THEN Http(400, "study_year missing or invalid in metadata")
    ELSE IF s1.meta["study_year"] # s2.meta["study_year"]
        THEN Http(409, "Inconsistent study_year across vertical fragments")
    ELSE IF s1.meta["study_year"] >= 4
        THEN Http(400, "Student is already at maximum study year (4)")
    ELSE IF \E y \in {s1.meta["study_year"], s1.meta["study_year"] + 1} :
                resolve_fragment("DBVS1", y) = NoFragment
        THEN Http(400, "No fragment found for study_year")
    ELSE NoResp

\* the handler without the comparison of the two study_year values
upgrade_student_year_begin_unchecked(student_id, skipped, raised) ==
    /\ Begin("upgrade_student_year", raised \/ skipped # {})
    /\ LET sid == Str(student_id)
           s1 == locate_student(store, "DBVS1", sid, skipped)
           s2 == locate_student(store, "DBVS2", sid, skipped)
           rej == IF raised THEN Unhandled ELSE upgrade_student_year_reject(s1, s2)
       IN  IF rej # NoResp /\ rej.status # 409
              THEN Finish(rej) /\ loc' = [sid |-> sid]
              ELSE /\ pc' = "upgrade_open"
                   /\ loc' = [sid |-> sid, s1 |-> s1, s2 |-> s2,
                              current_year |-> s1.meta["study_year"],
                              new_year |-> s1.meta["study_year"] + 1,
                              server |-> "DBVS1",
                              result1 |-> None,
                              err |-> NoResp]
                   /\ resp' = NoResp
    /\ UNCHANGED store

upgrade_student_year_begin(student_id, skipped, raised) ==
    /\ Begin("upgrade_student_year", raised \/ skipped # {})
    /\ LET sid == Str(student_id)
           s1 == locate_student(store, "DBVS1", sid, skipped)
           s2 == locate_student(store, "DBVS2", sid, skipped)
           rej == IF raised THEN Unhandled ELSE upgrade_student_year_reject(s1, s2)
       IN  IF rej # NoResp
              THEN Finish(rej) /\ loc' = [sid |-> sid]
              ELSE /\ pc' = "upgrade_open"
                   /\ loc' = [sid |-> sid, s1 |-> s1, s2 |-> s2,
                              current_year |-> s1.meta["study_year"],
                              new_year |-> s1.meta["study_year"] + 1,
                              server |-> "DBVS1",
                              result1 |-> None,
                              err |-> NoResp]
                   /\ resp' = NoResp
    /\ UNCHANGED store

\* the located record that apply_on_server is given for the server in turn
Located == IF loc.server = "DBVS1" THEN loc.s1 ELSE loc.s2

old_db == resolve_fragment(loc.server, loc.current_year)

new_db == resolve_fragment(loc.server, loc.new_year)

\* the metadata copied with study_year left as it was
new_meta_same_year == Located.meta

\* lines 1001-1003
new_meta == [Located.meta EXCEPT !["study_year"] = loc.new_year]

\* apply_on_server returned: DBVS2 is next, or the request is done
apply_on_server_return(action) ==
    IF loc.server = "DBVS1"
        THEN /\ loc' = [loc EXCEPT !.server = "DBVS2", !.result1 = action]
             /\ pc' = "upgrade_open"
             /\ UNCHANGED resp
        ELSE /\ Finish(Http(200, "Student upgraded successfully"))
             /\ UNCHANGED loc

\* apply_on_server raised HTTPException err: on DBVS1 it leaves the
\* handler, on DBVS2 line 1039 catches it and rolls DBVS1 back
apply_on_server_raise(err) ==
    IF loc.server = "DBVS1"
        THEN Finish(err) /\ UNCHANGED loc
        ELSE /\ loc' = [loc EXCEPT !.err = err]
             /\ pc' = IF loc.result1 = "update" THEN "upgrade_rollback_update"
                                                ELSE "upgrade_rollback_add"
             /\ UNCHANGED resp

\* lines 1005-1006, 1017-1018: get_client and get_or_create_collection are
\* outside every try of apply_on_server, and what they raise is no
\* HTTPException, so that line 1039 does not catch it
apply_on_server_open(ok) ==
    /\ pc = "upgrade_open"
    /\ IF ok
          THEN /\ pc' = IF new_db = old_db THEN "upgrade_update" ELSE "upgrade_add"
               /\ UNCHANGED resp
          ELSE Finish(Unhandled)
    /\ log' = log \o ReadFaults("forward", ~ok)
    /\ UNCHANGED <<store, loc, ctx>>

\* lines 1008-1014
apply_on_server_update(ok) ==
    /\ pc = "upgrade_update"
    /\ LET done == ok /\ CanUpdate(store, old_db, "students", loc.sid)
       IN  /\ log' = Append(log, Call("update", "forward", old_db, "students",
                                      {loc.sid}, done))
           /\ IF done
                 THEN /\ store' = CollUpdate(store, old_db, "students", loc.sid,
                                             Located.doc, new_meta)
                      /\ apply_on_server_return("update")
                 ELSE /\ apply_on_server_raise(Http(500, "Failed to update"))
                      /\ UNCHANGED store
    /\ UNCHANGED ctx

\* lines 1019-1022
apply_on_server_add(ok) ==
    /\ pc = "upgrade_add"
    /\ log' = Append(log, Call("add", "forward", new_db, "students", {loc.sid}, ok))
    /\ IF ok
          THEN /\ store' = CollAdd(store, new_db, "students", loc.sid,
                                   Located.doc, new_meta)
               /\ pc' = "upgrade_delete"
               /\ UNCHANGED <<loc, resp>>
          ELSE /\ apply_on_server_raise(Http(500, "Failed to add"))
               /\ UNCHANGED store
    /\ UNCHANGED ctx

\* lines 1023-1025, 1033
apply_on_server_delete(ok) ==
    /\ pc = "upgrade_delete"
    /\ log' = Append(log, Call("delete", "forward", old_db, "students", {loc.sid}, ok))
    /\ IF ok
          THEN /\ store' = CollDelete(store, old_db, "students", {loc.sid})
               /\ apply_on_server_return("move")
          ELSE /\ pc' = "upgrade_compensate"
               /\ UNCHANGED <<store, loc, resp>>
    /\ UNCHANGED ctx

\* the compensation that leaves the copy in the new partition
apply_on_server_compensate_left(ok) ==
    /\ pc = "upgrade_compensate"
    /\ log' = Append(log, Call("delete", "compensate", new_db, "students", {loc.sid}, ok))
    /\ UNCHANGED store
    /\ apply_on_server_raise(Http(500, "Failed to delete"))
    /\ UNCHANGED ctx

\* lines 1026-1031: a failure of the compensating delete is swallowed
apply_on_server_compensate(ok) ==
    /\ pc = "upgrade_compensate"
    /\ log' = Append(log, Call("delete", "compensate", new_db, "students", {loc.sid}, ok))
    /\ store' = IF ok THEN CollDelete(store, new_db, "students", {loc.sid}) ELSE store
    /\ apply_on_server_raise(Http(500, "Failed to delete"))
    /\ UNCHANGED ctx

\* the rollback writing the metadata that the record has now
upgrade_student_year_rollback_update_unsaved(ok) ==
    /\ pc = "upgrade_rollback_update"
    /\ LET db == resolve_fragment("DBVS1", loc.current_year)
           done == ok /\ CanUpdate(store, db, "students", loc.sid)
       IN  /\ log' = Append(log, Call("update", "compensate", db, "students",
                                      {loc.sid}, done))
           /\ store' = IF done
                          THEN CollUpdate(store, db, "students", loc.sid, loc.s1.doc,
                                          Rows(store, db, "students")[loc.sid].metadata)
                          ELSE store
    /\ Finish(loc.err)
    /\ UNCHANGED <<loc, ctx>>

\* lines 1042-1046, 1060-1063: result1 was an update
upgrade_student_year_rollback_update(ok) ==
    /\ pc = "upgrade_rollback_update"
    /\ LET db == resolve_fragment("DBVS1", loc.current_year)
           done == ok /\ CanUpdate(store, db, "students", loc.sid)
       IN  /\ log' = Append(log, Call("update", "compensate", db, "students",
                                      {loc.sid}, done))
           /\ store' = IF done
                          THEN CollUpdate(store, db, "students", loc.sid,
                                          loc.s1.doc, loc.s1.meta)
                          ELSE store
    /\ Finish(loc.err)
    /\ UNCHANGED <<loc, ctx>>

\* the move back deleting from the new partition although the add to the
\* original one failed
upgrade_student_year_rollback_add_goes_on(ok) ==
    /\ pc = "upgrade_rollback_add"
    /\ LET from_db == resolve_fragment("DBVS1", loc.current_year)
       IN  /\ log' = Append(log, Call("add", "compensate", from_db, "students",
                                      {loc.sid}, ok))
           /\ store' = IF ok THEN CollAdd(store, from_db, "students", loc.sid,
                                          loc.s1.doc, loc.s1.meta)
                             ELSE store
           /\ pc' = "upgrade_rollback_delete"
    /\ UNCHANGED <<loc, resp, ctx>>

\* lines 1047-1055, 1060-1063: result1 was a move
upgrade_student_year_rollback_add(ok) ==
    /\ pc = "upgrade_rollback_add"
    /\ LET from_db == resolve_fragment("DBVS1", loc.current_year)
       IN  /\ log' = Append(log, Call("add", "compensate", from_db, "students",
                                      {loc.sid}, ok))
           /\ IF ok
                 THEN /\ store' = CollAdd(store, from_db, "students", loc.sid,
                                          loc.s1.doc, loc.s1.meta)
                      /\ pc' = "upgrade_rollback_delete"
                      /\ UNCHANGED resp
                 ELSE /\ Finish(loc.err)
                      /\ UNCHANGED store
    /\ UNCHANGED <<loc, ctx>>

\* lines 1056-1059, 1063
upgrade_student_year_rollback_delete(ok) ==
    /\ pc = "upgrade_rollback_delete"
    /\ LET to_db == resolve_fragment("DBVS1", loc.new_year)
       IN  /\ log' = Append(log, Call("delete", "compensate", to_db, "students",
                                      {loc.sid}, ok))
           /\ store' = IF ok THEN CollDelete(store, to_db, "students", {loc.sid})
                             ELSE store
    /\ Finish(loc.err)
    /\ UNCHANGED <<loc, ctx>>

----------------------------------------------------------------------------
(* Courses: what delete_course, move_course, upgrade_course and            *)
(* add_course_review share                                                 *)

\* the scan for a course over FRAGMENTS["DBVS2"]: the first database, in
\* order, whose courses collection holds the id; a database whose
\* get_collection raises is passed over
locate_course(st, course_id_str, skipped) ==
    LET dbs  == Databases("DBVS2")
        hits == {i \in 1..Len(dbs) :
                    dbs[i] \notin skipped /\ course_id_str \in Ids(st, dbs[i], "courses")}
    IN  IF hits = {} THEN NotLocated
        ELSE LET db_name == dbs[Min(hits)]
                 row == Rows(st, db_name, "courses")[course_id_str]
             IN  [found |-> TRUE, db |-> db_name, frag_type |-> FragTypes[Min(hits)],
                  doc |-> row.document, meta |-> row.metadata]

\* str(meta.get("course_id")) == course_id_str
ReviewMatches(row, course_id_str) ==
    /\ "course_id" \in DOMAIN row.metadata
    /\ Str(row.metadata["course_id"]) = course_id_str

\* every review of the partition taken for a review of the course
MatchingReviews_all(st, db, course_id_str) == Ids(st, db, "course_review")

MatchingReviews(st, db, course_id_str) ==
    {rid \in Ids(st, db, "course_review") :
        ReviewMatches(Rows(st, db, "course_review")[rid], course_id_str)}

\* doc or ""
OrEmpty(doc) == IF doc = None THEN "" ELSE doc

\* try: col.add(...)  except Exception: col.update(...)
AddOrUpdate(st, db, coll, id, doc, meta, add_ok, upd_ok) ==
    IF add_ok
        THEN [ok |-> TRUE, st |-> CollAdd(st, db, coll, id, OrEmpty(doc), meta)]
    ELSE IF upd_ok /\ CanUpdate(st, db, coll, id)
        THEN [ok |-> TRUE, st |-> CollUpdate(st, db, coll, id, OrEmpty(doc), meta)]
    ELSE [ok |-> FALSE, st |-> st]

AddOrUpdateCalls(st, role, db, coll, id, add_ok, upd_ok) ==
    IF add_ok
        THEN <<Call("add", role, db, coll, {id}, TRUE)>>
        ELSE <<Call("add", role, db, coll, {id}, FALSE),
               Call("update", role, db, coll, {id},
                    upd_ok /\ CanUpdate(st, db, coll, id))>>

----------------------------------------------------------------------------
(* delete_course *)

\* lines 304-309
delete_course_peer_db1(source_db2) ==
    IF source_db2 = "db21" THEN "db11"
    ELSE IF source_db2 = "db22" THEN "db12"
    ELSE NoFragment

\* lines 270-302, the scan; raised: a get_client or a get of the scan raised
delete_course_begin(course_id, skipped, raised) ==
    /\ Begin("delete_course", raised \/ skipped # {})
    /\ LET c == locate_course(store, course_id, skipped)
       IN  IF raised
              THEN Finish(Unhandled) /\ loc' = [course_id_str |-> course_id]
           ELSE IF ~c.found
              THEN /\ Finish(Http(404, "Course not found in DBVS2"))
                   /\ loc' = [course_id_str |-> course_id]
           ELSE /\ pc' = "delete_course"
                /\ loc' = [course_id_str |-> course_id,
                           source_db2 |-> c.db,
                           peer_db1 |-> delete_course_peer_db1(c.db),
                           saved_doc |-> c.doc,
                           saved_meta |-> c.meta,
                           exam_deleted |-> FALSE,
                           saved_exam_doc |-> None,
                           saved_exam_meta |-> EmptyMap,
                           ids_to_delete |-> {},
                           deleted_reviews |-> 0,
                           review_error |-> FALSE,
                           exam_error |-> None,
                           restore_course_error |-> FALSE,
                           restore_exam_error |-> FALSE]
                /\ resp' = NoResp
    /\ UNCHANGED store

\* lines 290-299
delete_course_delete(ok) ==
    /\ pc = "delete_course"
    /\ log' = Append(log, Call("delete", "forward", loc.source_db2, "courses",
                               {loc.course_id_str}, ok))
    /\ IF ok
          THEN /\ store' = CollDelete(store, loc.source_db2, "courses",
                                      {loc.course_id_str})
               /\ pc' = "delete_course_exam_open"
               /\ UNCHANGED resp
          ELSE /\ Finish(Http(500, "Failed to delete course"))
               /\ UNCHANGED store
    /\ UNCHANGED <<loc, ctx>>

\* lines 314-325: without the client or the exams collection the exam is
\* left alone; exam_error is "swallowed" when lines 316 or 322 caught the
\* exception, "caught" when line 337 did
delete_course_exam_open(ok) ==
    /\ pc = "delete_course_exam_open"
    /\ pc' = IF ok THEN "delete_course_exam_get" ELSE "delete_course_reviews"
    /\ loc' = [loc EXCEPT !.exam_error = IF ok THEN @ ELSE "swallowed"]
    /\ log' = log \o ReadFaults("forward", ~ok)
    /\ UNCHANGED <<store, resp, ctx>>

\* lines 326-334, 337
delete_course_exam_get(ok) ==
    /\ pc = "delete_course_exam_get"
    /\ IF ~ok
          THEN /\ pc' = "delete_course_exam_restore"
               /\ loc' = [loc EXCEPT !.exam_error = "caught"]
       ELSE IF loc.course_id_str \in Ids(store, loc.source_db2, "exams")
          THEN LET row == Rows(store, loc.source_db2, "exams")[loc.course_id_str]
               IN  /\ loc' = [loc EXCEPT !.saved_exam_doc = row.document,
                                         !.saved_exam_meta = row.metadata]
                   /\ pc' = "delete_course_exam_delete"
       ELSE pc' = "delete_course_reviews" /\ UNCHANGED loc
    /\ log' = log \o ReadFaults("forward", ~ok)
    /\ UNCHANGED <<store, resp, ctx>>

\* lines 335-337
delete_course_exam_delete(ok) ==
    /\ pc = "delete_course_exam_delete"
    /\ log' = Append(log, Call("delete", "forward", loc.source_db2, "exams",
                               {loc.course_id_str}, ok))
    /\ IF ok
          THEN /\ store' = CollDelete(store, loc.source_db2, "exams",
                                      {loc.course_id_str})
               /\ loc' = [loc EXCEPT !.exam_deleted = TRUE]
               /\ pc' = "delete_course_reviews"
          ELSE /\ pc' = "delete_course_exam_restore"
               /\ loc' = [loc EXCEPT !.exam_error = "caught"]
               /\ UNCHANGED store
    /\ UNCHANGED <<resp, ctx>>

\* lines 338-362
delete_course_exam_restore(ok) ==
    /\ pc = "delete_course_exam_restore"
    /\ log' = Append(log, Call("add", "compensate", loc.source_db2, "courses",
                               {loc.course_id_str}, ok))
    /\ IF ok
          THEN /\ store' = CollAdd(store, loc.source_db2, "courses", loc.course_id_str,
                                   OrEmpty(loc.saved_doc), loc.saved_meta)
               /\ Finish(Http(500, "Failed to delete related exam; course deletion rolled back"))
          ELSE /\ Finish(Http(500, "Failed to delete related exam; also failed to restore course"))
               /\ UNCHANGED store
    /\ UNCHANGED <<loc, ctx>>

\* lines 364-399, 457-463.  outcome "no collection": get_collection raised
\* for course_review and for course_reviews (which no part of the system
\* creates) and the reviews are left alone; "raise": get_client or get
\* raised; "ok": the scan was done.  Line 397 raises whenever a review is
\* to be deleted, so that lines 398-399 are never reached.
delete_course_reviews(outcome) ==
    /\ pc = "delete_course_reviews"
    /\ LET ids_to_delete ==
               IF outcome = "ok"
                  THEN MatchingReviews(store, loc.peer_db1, loc.course_id_str)
                  ELSE {}
       IN  IF outcome = "raise" \/ ids_to_delete # {}
              THEN /\ pc' = "delete_course_restore_open"
                   /\ loc' = [loc EXCEPT !.ids_to_delete = ids_to_delete,
                                             !.review_error = TRUE]
                   /\ UNCHANGED resp
              ELSE /\ Finish(Http(200, "Course deleted successfully"))
                   /\ UNCHANGED loc
    /\ log' = log \o ReadFaults("forward", outcome # "ok")
    /\ UNCHANGED <<store, ctx>>

\* lines 403-411, 435-448: no client, no restore is attempted
delete_course_restore_open(ok) ==
    /\ pc = "delete_course_restore_open"
    /\ IF ok
          THEN /\ pc' = "delete_course_restore_course"
               /\ UNCHANGED <<loc, resp>>
          ELSE /\ loc' = [loc EXCEPT !.restore_course_error = TRUE,
                                     !.restore_exam_error = loc.exam_deleted]
               /\ Finish(Http(500, "Failed to delete related course_review items; also failed to restore"))
    /\ log' = log \o ReadFaults("compensate", ~ok)
    /\ UNCHANGED <<store, ctx>>

\* lines 435-455
delete_course_restore_result(course_error, exam_error) ==
    IF course_error \/ (loc.exam_deleted /\ exam_error)
        THEN Http(500, "Failed to delete related course_review items; also failed to restore")
        ELSE Http(500, "Failed to delete related course_review items; course deletion rolled back")

\* lines 413-422
delete_course_restore_course(ok) ==
    /\ pc = "delete_course_restore_course"
    /\ log' = Append(log, Call("add", "compensate", loc.source_db2, "courses",
                               {loc.course_id_str}, ok))
    /\ store' = IF ok
                   THEN CollAdd(store, loc.source_db2, "courses", loc.course_id_str,
                                OrEmpty(loc.saved_doc), loc.saved_meta)
                   ELSE store
    /\ loc' = [loc EXCEPT !.restore_course_error = ~ok]
    /\ IF loc.exam_deleted
          THEN pc' = "delete_course_restore_exam" /\ UNCHANGED resp
          ELSE Finish(delete_course_restore_result(~ok, FALSE))
    /\ UNCHANGED ctx

\* the exam restored from the snapshot of the course
delete_course_restore_exam_course_snapshot(ok) ==
    /\ pc = "delete_course_restore_exam"
    /\ log' = Append(log, Call("add", "compensate", loc.source_db2, "exams",
                               {loc.course_id_str}, ok))
    /\ store' = IF ok
                   THEN CollAdd(store, loc.source_db2, "exams", loc.course_id_str,
                                OrEmpty(loc.saved_doc), loc.saved_meta)
                   ELSE store
    /\ loc' = [loc EXCEPT !.restore_exam_error = ~ok]
    /\ Finish(delete_course_restore_result(loc.restore_course_error, ~ok))
    /\ UNCHANGED ctx

\* lines 424-433
delete_course_restore_exam(ok) ==
    /\ pc = "delete_course_restore_exam"
    /\ log' = Append(log, Call("add", "compensate", loc.source_db2, "exams",
                               {loc.course_id_str}, ok))
    /\ store' = IF ok
                   THEN CollAdd(store, loc.source_db2, "exams", loc.course_id_str,
                                OrEmpty(loc.saved_exam_doc), loc.saved_exam_meta)
                   ELSE store
    /\ loc' = [loc EXCEPT !.restore_exam_error = ~ok]
    /\ Finish(delete_course_restore_result(loc.restore_course_error, ~ok))
    /\ UNCHANGED ctx

----------------------------------------------------------------------------
(* move_course *)

\* req.target_db.strip().lower() on the targets that requests name
Normalized(target_db) ==
    IF target_db \in {" DB22 ", "DB22"} THEN "db22"
    ELSE IF target_db \in {" DB21 ", "DB21"} THEN "db21"
    ELSE target_db

\* lines 609-610
move_course_db1(db2) == IF db2 = "db21" THEN "db11" ELSE "db12"

\* _get_row: the row of rid, if the collection can be had and holds it
get_row(st, db, collection_name, rid, unread) ==
    IF collection_name \in unread \/ rid \notin Ids(st, db, collection_name)
        THEN [has |-> FALSE, coll |-> collection_name, id |-> rid,
              doc |-> None, meta |-> EmptyMap]
        ELSE [has |-> TRUE, coll |-> collection_name, id |-> rid,
              doc |-> Rows(st, db, collection_name)[rid].document,
              meta |-> Rows(st, db, collection_name)[rid].metadata]

\* lines 509-510, 531-539: the row linked by key of the course's metadata
linked_row(st, db, course_meta, key, collection_name, unread) ==
    IF key \in DOMAIN course_meta
        THEN get_row(st, db, collection_name, Str(course_meta[key]), unread)
        ELSE get_row(st, db, collection_name, None, {collection_name})

ForwardOrder == <<"course", "exam", "program">>

RollbackOrder == <<"program", "exam", "course">>

IndexIn(order, e) == CHOOSE i \in 1..Len(order) : order[i] = e

\* the first entity after position i of order that satisfies the flags
NextIn(order, i, flags) ==
    LET later == {j \in (i + 1)..Len(order) : flags[order[j]]}
    IN  IF later = {} THEN None ELSE order[Min(later)]

\* lines 472-474
move_course_begin(course_id, target_db) ==
    /\ Begin("move_course", FALSE)
    /\ LET target_db2 == Normalized(target_db)
       IN  IF target_db2 \notin {"db21", "db22"}
              THEN /\ Finish(Http(400, "target_db must be 'db21' or 'db22'"))
                   /\ loc' = [course_id_str |-> course_id]
              ELSE /\ pc' = "move_course_scan"
                   /\ resp' = NoResp
                   /\ loc' = [course_id_str |-> course_id, target_db2 |-> target_db2]
    /\ UNCHANGED store

\* lines 476-539.  skipped: the databases whose get_collection raised in
\* the scan; unread: the collections among exams and programs whose
\* get_collection raised in _get_row; raised: a get_client or a get raised
move_course_scan(skipped, unread, raised) ==
    /\ pc = "move_course_scan"
    /\ LET course_id == loc.course_id_str
           target_db2 == loc.target_db2
           c == locate_course(store, course_id, skipped)
       IN  IF raised
              THEN Finish(Unhandled) /\ UNCHANGED loc
           ELSE IF ~c.found
              THEN Finish(Http(404, "Course not found in DBVS2")) /\ UNCHANGED loc
           ELSE IF c.db = target_db2
              THEN /\ Finish(Http(200, "Course already in target fragment"))
                   /\ UNCHANGED loc
           ELSE /\ pc' = "move_course_add"
                /\ loc' = [course_id_str |-> course_id,
                           source_db2 |-> c.db,
                           target_db2 |-> target_db2,
                           ent |-> [course  |-> [has |-> TRUE, coll |-> "courses",
                                                 id |-> course_id, doc |-> c.doc,
                                                 meta |-> c.meta],
                                    exam    |-> linked_row(store, c.db, c.meta,
                                                           "exam_id", "exams", unread),
                                    program |-> linked_row(store, c.db, c.meta,
                                                           "program_id", "programs",
                                                           unread)],
                           moved |-> [course |-> FALSE, exam |-> FALSE,
                                      program |-> FALSE],
                           cur |-> "course",
                           phase |-> 1,
                           src_db1 |-> move_course_db1(c.db),
                           tgt_db1 |-> move_course_db1(target_db2),
                           todo |-> {},
                           moved_review_ids |-> {}]
                /\ UNCHANGED resp
    /\ log' = log \o ReadFaults("forward", raised \/ skipped # {} \/ unread # {})
    /\ UNCHANGED <<store, ctx>>

\* the entities that the rollback of the phase restores: lines 576, 586,
\* 595 (those marked moved) and lines 642, 652, 662 (those that were found)
Restorable ==
    IF loc.phase = 1 THEN loc.moved
    ELSE [e \in DOMAIN loc.ent |-> loc.ent[e].has]

\* line 573 or 638 is entered: the first entity to restore, or the end
move_course_rollback_from(i) ==
    LET e == NextIn(RollbackOrder, i, Restorable)
    IN  IF e # None
           THEN /\ pc' = "move_course_restore"
                /\ loc' = [loc EXCEPT !.cur = e]
                /\ UNCHANGED resp
        ELSE IF loc.phase = 2 /\ loc.moved_review_ids # {}
           THEN /\ pc' = "move_course_cleanup_reviews"
                /\ UNCHANGED <<loc, resp>>
        ELSE /\ Finish(IF loc.phase = 1
                          THEN Http(500, "Failed moving course within DBVS2")
                          ELSE Http(500, "Failed moving course_reviews"))
             /\ UNCHANGED loc

\* the step going on to the delete from the source after the write to the
\* target failed
move_course_add_goes_on(add_ok, upd_ok) ==
    /\ pc = "move_course_add"
    /\ LET e == loc.ent[loc.cur]
           r == AddOrUpdate(store, loc.target_db2, e.coll, e.id, e.doc, e.meta,
                            add_ok, upd_ok)
       IN  /\ log' = log \o AddOrUpdateCalls(store, "forward", loc.target_db2, e.coll,
                                             e.id, add_ok, upd_ok)
           /\ store' = r.st
           /\ pc' = "move_course_delete"
           /\ UNCHANGED <<loc, resp>>
    /\ UNCHANGED ctx

\* lines 545-550, 556-560, 566-570: the entity in turn is written to the
\* target; a failure to get the target collection is a failure of both calls
move_course_add(add_ok, upd_ok) ==
    /\ pc = "move_course_add"
    /\ LET e == loc.ent[loc.cur]
           r == AddOrUpdate(store, loc.target_db2, e.coll, e.id, e.doc, e.meta,
                            add_ok, upd_ok)
       IN  /\ log' = log \o AddOrUpdateCalls(store, "forward", loc.target_db2, e.coll,
                                             e.id, add_ok, upd_ok)
           /\ store' = r.st
           /\ IF r.ok
                 THEN pc' = "move_course_delete" /\ UNCHANGED <<loc, resp>>
                 ELSE move_course_rollback_from(0)
    /\ UNCHANGED ctx

\* the delete from the source tried again for as long as it fails, on a
\* partition that stays down
move_course_delete_retried(ok) ==
    /\ pc = "move_course_delete"
    /\ ~ok
    /\ UNCHANGED vars

\* lines 551-552, 561-562, 571-572: the entity is deleted from the source
\* and only then marked moved
move_course_delete(ok) ==
    /\ pc = "move_course_delete"
    /\ LET e == loc.ent[loc.cur]
           next == NextIn(ForwardOrder, IndexIn(ForwardOrder, loc.cur),
                          [x \in DOMAIN loc.ent |-> loc.ent[x].has])
       IN  /\ log' = Append(log, Call("delete", "forward", loc.source_db2, e.coll,
                                      {e.id}, ok))
           /\ IF ok
                 THEN /\ store' = CollDelete(store, loc.source_db2, e.coll, {e.id})
                      /\ loc' = [loc EXCEPT !.moved[loc.cur] = TRUE,
                                            !.cur = IF next = None THEN @ ELSE next,
                                            !.phase = IF next = None THEN 2 ELSE 1]
                      /\ pc' = IF next = None THEN "move_course_reviews"
                                              ELSE "move_course_add"
                      /\ UNCHANGED resp
                 ELSE /\ move_course_rollback_from(0)
                      /\ UNCHANGED store
    /\ UNCHANGED ctx

\* the reviews of the course are not looked for
move_course_reviews_not_moved(outcome) ==
    /\ pc = "move_course_reviews"
    /\ IF outcome = "raise"
          THEN move_course_rollback_from(0)
          ELSE Finish(Http(200, "Course moved successfully")) /\ UNCHANGED loc
    /\ log' = log \o ReadFaults("forward", outcome # "ok")
    /\ UNCHANGED <<store, ctx>>

\* lines 612-624.  outcome "no collection": get_collection raised and no
\* review is moved; "raise": a get_client, the get or the target's
\* get_or_create_collection raised; "ok": the matching reviews are found
move_course_reviews(outcome) ==
    /\ pc = "move_course_reviews"
    /\ LET todo == IF outcome = "ok"
                      THEN MatchingReviews(store, loc.src_db1, loc.course_id_str)
                      ELSE {}
       IN  IF outcome = "raise"
              THEN move_course_rollback_from(0)
           ELSE IF todo = {}
              THEN Finish(Http(200, "Course moved successfully")) /\ UNCHANGED loc
           ELSE /\ pc' = "move_course_review_add"
                /\ loc' = [loc EXCEPT !.todo = todo]
                /\ UNCHANGED resp
    /\ log' = log \o ReadFaults("forward", outcome # "ok")
    /\ UNCHANGED <<store, ctx>>

\* lines 626-634, one turn of the loop; the reviews come in the order of
\* the collection, which is any order
move_course_review_add(rid, add_ok, upd_ok) ==
    /\ pc = "move_course_review_add"
    /\ rid \in loc.todo
    /\ LET row == Rows(store, loc.src_db1, "course_review")[rid]
           r == AddOrUpdate(store, loc.tgt_db1, "course_review", rid, row.document,
                            row.metadata, add_ok, upd_ok)
       IN  /\ log' = log \o AddOrUpdateCalls(store, "forward", loc.tgt_db1,
                                             "course_review", rid, add_ok, upd_ok)
           /\ store' = r.st
           /\ IF r.ok
                 THEN /\ loc' = [loc EXCEPT !.todo = @ \ {rid},
                                            !.moved_review_ids = @ \cup {rid}]
                      /\ pc' = IF loc.todo = {rid} THEN "move_course_reviews_delete"
                                                   ELSE "move_course_review_add"
                      /\ UNCHANGED resp
                 ELSE move_course_rollback_from(0)
    /\ UNCHANGED ctx

\* lines 636-637, 680-688
move_course_reviews_delete(ok) ==
    /\ pc = "move_course_reviews_delete"
    /\ log' = Append(log, Call("delete", "forward", loc.src_db1, "course_review",
                               loc.moved_review_ids, ok))
    /\ IF ok
          THEN /\ store' = CollDelete(store, loc.src_db1, "course_review",
                                      loc.moved_review_ids)
               /\ Finish(Http(200, "Course moved successfully"))
               /\ UNCHANGED loc
          ELSE /\ move_course_rollback_from(0)
               /\ UNCHANGED store
    /\ UNCHANGED ctx

\* lines 578-581, 587-590, 596-599 and 643-646, 653-656, 662-665: the
\* entity in turn is written back to the source; when add and update both
\* raise, line 604 or 676 ends the rollback
move_course_restore(add_ok, upd_ok) ==
    /\ pc = "move_course_restore"
    /\ LET e == loc.ent[loc.cur]
           r == AddOrUpdate(store, loc.source_db2, e.coll, e.id, e.doc, e.meta,
                            add_ok, upd_ok)
       IN  /\ log' = log \o AddOrUpdateCalls(store, "compensate", loc.source_db2,
                                             e.coll, e.id, add_ok, upd_ok)
           /\ store' = r.st
           /\ IF r.ok
                 THEN pc' = "move_course_restore_delete" /\ UNCHANGED resp
                 ELSE Finish(IF loc.phase = 1
                                THEN Http(500, "Failed moving course within DBVS2; rollback failed")
                                ELSE Http(500, "Failed moving course_reviews; rollback failed"))
    /\ UNCHANGED <<loc, ctx>>

\* lines 582-585, 591-594, 600-603 and 647-650, 657-660, 666-669: the
\* entity is deleted from the target; a failure is swallowed
move_course_restore_delete(ok) ==
    /\ pc = "move_course_restore_delete"
    /\ LET e == loc.ent[loc.cur]
       IN  /\ log' = Append(log, Call("delete", "compensate", loc.target_db2, e.coll,
                                      {e.id}, ok))
           /\ store' = IF ok THEN CollDelete(store, loc.target_db2, e.coll, {e.id})
                             ELSE store
    /\ move_course_rollback_from(IndexIn(RollbackOrder, loc.cur))
    /\ UNCHANGED ctx

\* the cleanup deleting from the source database of the reviews
move_course_cleanup_reviews_in_source(ok) ==
    /\ pc = "move_course_cleanup_reviews"
    /\ log' = Append(log, Call("delete", "compensate", loc.src_db1, "course_review",
                               loc.moved_review_ids, ok))
    /\ store' = IF ok
                   THEN CollDelete(store, loc.src_db1, "course_review",
                                   loc.moved_review_ids)
                   ELSE store
    /\ Finish(Http(500, "Failed moving course_reviews"))
    /\ UNCHANGED <<loc, ctx>>

\* lines 670-675, 678: a failure is swallowed
move_course_cleanup_reviews(ok) ==
    /\ pc = "move_course_cleanup_reviews"
    /\ log' = Append(log, Call("delete", "compensate", loc.tgt_db1, "course_review",
                               loc.moved_review_ids, ok))
    /\ store' = IF ok
                   THEN CollDelete(store, loc.tgt_db1, "course_review",
                                   loc.moved_review_ids)
                   ELSE store
    /\ Finish(Http(500, "Failed moving course_reviews"))
    /\ UNCHANGED <<loc, ctx>>

----------------------------------------------------------------------------
(* upgrade_course *)

\* the endpoint with db21 as its fixed target
upgrade_course_begin_to_db21(course_id, skipped, raised) ==
    /\ Begin("upgrade_course", raised \/ skipped # {})
    /\ LET c == locate_course(store, course_id, skipped)
       IN  IF raised
              THEN Finish(Unhandled) /\ loc' = [course_id_str |-> course_id]
           ELSE IF ~c.found
              THEN /\ Finish(Http(404, "Course not found in DBVS2"))
                   /\ loc' = [course_id_str |-> course_id]
           ELSE IF c.db = "db21"
              THEN /\ Finish(Http(200, "Course already at upper level (db22)"))
                   /\ loc' = [course_id_str |-> course_id]
           ELSE /\ pc' = "move_course_scan"
                /\ resp' = NoResp
                /\ loc' = [course_id_str |-> course_id,
                           target_db2 |-> Normalized("db21")]
    /\ UNCHANGED store

\* lines 698-719: its own scan, then move_course with target db22
upgrade_course_begin(course_id, skipped, raised) ==
    /\ Begin("upgrade_course", raised \/ skipped # {})
    /\ LET c == locate_course(store, course_id, skipped)
       IN  IF raised
              THEN Finish(Unhandled) /\ loc' = [course_id_str |-> course_id]
           ELSE IF ~c.found
              THEN /\ Finish(Http(404, "Course not found in DBVS2"))
                   /\ loc' = [course_id_str |-> course_id]
           ELSE IF c.db = "db22"
              THEN /\ Finish(Http(200, "Course already at upper level (db22)"))
                   /\ loc' = [course_id_str |-> course_id]
           ELSE /\ pc' = "move_course_scan"
                /\ resp' = NoResp
                /\ loc' = [course_id_str |-> course_id,
                           target_db2 |-> Normalized("db22")]
    /\ UNCHANGED store

----------------------------------------------------------------------------
(* add_course_review *)

\* the handler writing to the internal fragment wherever the course is
add_course_review_begin_internal(course_id, text, rid, skipped) ==
    /\ Begin("add_course_review", skipped # {})
    /\ LET c == locate_course(store, Str(course_id), skipped)
       IN  IF ~c.found
              THEN /\ Finish(Http(404, "Course not found in DBVS2"))
                   /\ loc' = [course_id |-> course_id]
              ELSE /\ pc' = "add_course_review"
                   /\ loc' = [course_id |-> course_id,
                              target_dbvs1_db |-> FRAGMENTS["DBVS1"]["internal"].database,
                              review_id |-> rid,
                              review_doc |-> text,
                              review_meta |-> [course_id |-> course_id,
                                               timestamp |-> Now]]
                   /\ resp' = NoResp
    /\ UNCHANGED store

\* lines 221-251: rid is the uuid4 drawn for the review
add_course_review_begin(course_id, text, rid, skipped) ==
    /\ Begin("add_course_review", skipped # {})
    /\ LET c == locate_course(store, Str(course_id), skipped)
       IN  IF ~c.found
              THEN /\ Finish(Http(404, "Course not found in DBVS2"))
                   /\ loc' = [course_id |-> course_id]
              ELSE /\ pc' = "add_course_review"
                   /\ loc' = [course_id |-> course_id,
                              target_dbvs1_db |-> FRAGMENTS["DBVS1"][c.frag_type].database,
                              review_id |-> rid,
                              review_doc |-> text,
                              review_meta |-> [course_id |-> course_id,
                                               timestamp |-> Now]]
                   /\ resp' = NoResp
    /\ UNCHANGED store

\* lines 253-265
add_course_review_add(ok) ==
    /\ pc = "add_course_review"
    /\ log' = Append(log, Call("add", "forward", loc.target_dbvs1_db, "course_review",
                               {loc.review_id}, ok))
    /\ IF ok
          THEN /\ store' = CollAdd(store, loc.target_dbvs1_db, "course_review",
                                   loc.review_id, loc.review_doc, loc.review_meta)
               /\ Finish(Http(200, "Course review inserted"))
          ELSE /\ Finish(Http(500, "Failed to insert course review into DBVS1"))
               /\ UNCHANGED store
    /\ UNCHANGED <<loc, ctx>>

----------------------------------------------------------------------------
(* Initial states, requests *)

AcademicMeta(y) == [final_score |-> "9.5", study_year |-> y, timestamp |-> "2025"]

PersonalMeta(n, y) ==
    [student_id |-> n, name |-> "K", surname |-> "L", email |-> "k@e.com",
     study_year |-> y]

\* a student as insert_student leaves it, but with the two documents that
\* the loaders give the two domains
SeedStudent(st, n, y) ==
    CollAdd(CollAdd(st, resolve_fragment("DBVS1", y), "students", Str(n),
                    "review", AcademicMeta(y)),
            resolve_fragment("DBVS2", y), "students", Str(n),
            "letter", PersonalMeta(n, y))

SeedStores == {EmptyStore} \cup {SeedStudent(EmptyStore, 1, y) : y \in 1..4}

FullMeta(raw) ==
    [study_year |-> raw, final_score |-> "9.5", name |-> "J", surname |-> "S",
     email |-> "j@e.com"]

Restrict(m, ks) == [k \in ks |-> m[k]]

StudentInputs ==
    LET good == {[document |-> "profile", metadata |-> FullMeta(Raw("int", Str(y)))] :
                    y \in 1..4}
        bad  == {[document |-> "profile", metadata |-> m] :
                    m \in {FullMeta(Raw("int", "5")),
                           FullMeta(Raw("str", "abc")),
                           FullMeta(Raw("str", "3")),
                           FullMeta(Raw("float", "2.7")),
                           Restrict(FullMeta(Raw("int", "1")),
                                    {"final_score", "name", "surname", "email"}),
                           Restrict(FullMeta(Raw("int", "1")),
                                    {"study_year", "name", "surname", "email"}),
                           Restrict(FullMeta(Raw("int", "1")),
                                    {"study_year", "final_score", "name", "email"}),
                           [FullMeta(Raw("int", "1")) EXCEPT !["final_score"] = "abc"]}}
    IN  good \cup bad

Init ==
    /\ store \in SeedStores
    /\ pc = "idle"
    /\ op = "none"
    /\ loc = NoLoc
    /\ resp = NoResp
    /\ pre = store
    /\ log = <<>>
    /\ nreq = 0

InsertStudent ==
    \/ \E student \in StudentInputs : insert_student_begin(student)
    \/ \E skipped \in SUBSET DBs : insert_student_allocate(skipped)
    \/ \E ok \in BOOLEAN : insert_student_add_dbvs1(ok)
    \/ \E ok \in BOOLEAN : insert_student_add_dbvs2(ok)
    \/ \E ok \in BOOLEAN : insert_student_rollback(ok)

\* the student ids that requests name
StudentIds == {1, 2}

DeleteStudent ==
    \/ \E student_id \in StudentIds, skipped \in SUBSET DBs, raised \in BOOLEAN :
          delete_student_begin(student_id, skipped, raised)
    \/ \E ok \in BOOLEAN : delete_student_delete_dbvs1(ok)
    \/ \E ok \in BOOLEAN : delete_student_delete_dbvs2(ok)
    \/ \E ok \in BOOLEAN : delete_student_rollback(ok)

UpgradeStudentYear ==
    \/ \E student_id \in StudentIds, skipped \in SUBSET DBs, raised \in BOOLEAN :
          upgrade_student_year_begin(student_id, skipped, raised)
    \/ \E ok \in BOOLEAN : apply_on_server_open(ok)
    \/ \E ok \in BOOLEAN : apply_on_server_update(ok)
    \/ \E ok \in BOOLEAN : apply_on_server_add(ok)
    \/ \E ok \in BOOLEAN : apply_on_server_delete(ok)
    \/ \E ok \in BOOLEAN : apply_on_server_compensate(ok)
    \/ \E ok \in BOOLEAN : upgrade_student_year_rollback_update(ok)
    \/ \E ok \in BOOLEAN : upgrade_student_year_rollback_add(ok)
    \/ \E ok \in BOOLEAN : upgrade_student_year_rollback_delete(ok)

Next == InsertStudent \/ DeleteStudent \/ UpgradeStudentYear

Spec == Init /\ [][Next]_vars

----------------------------------------------------------------------------
(* Initial states and requests of the course sagas *)

\* links "none": the course names no exam and no program; "same": it names
\* exam 5 and program 5, its own id; "other": it names exam 4 and program 4
CourseMeta(links) ==
    IF links = "none" THEN [name |-> "Database Systems"]
    ELSE [name |-> "Database Systems",
          exam_id |-> IF links = "same" THEN 5 ELSE 4,
          program_id |-> IF links = "same" THEN 5 ELSE 4]

ExamMeta(n) == [course_id |-> n, name |-> "Database Final"]

ProgramMeta == [name |-> "Data Science"]

ReviewMeta(n) == [course_id |-> n]

SeedLinks(st, db, links) ==
    IF links = "none" THEN st
    ELSE LET id == IF links = "same" THEN "5" ELSE "4"
         IN  CollAdd(CollAdd(st, db, "exams", id, "Database Final", ExamMeta(5)),
                     db, "programs", id, "Data Science", ProgramMeta)

\* the ids of the reviews of course 5 in the initial states
SeedReviewIds == <<"rv1", "rv2", "rv3">>

RECURSIVE SeedReviews(_, _, _)
SeedReviews(st, db, n) ==
    IF n = 0 THEN st
    ELSE CollAdd(SeedReviews(st, db, n - 1), db, "course_review", SeedReviewIds[n],
                 "good", ReviewMeta(5))

\* course 6 with its exam and a review, in db22 and db12, and student 1
Bystanders ==
    LET c == CollAdd(SeedStudent(EmptyStore, 1, 1), "db22", "courses", "6",
                     "Algorithms", [name |-> "Algorithms", exam_id |-> 6])
        e == CollAdd(c, "db22", "exams", "6", "Algorithms Final", ExamMeta(6))
    IN  CollAdd(e, "db12", "course_review", "rv6", "hard", ReviewMeta(6))

\* course 5 in db2 with its links and n reviews in the paired database
SeedCourse(db2, links, n) ==
    SeedReviews(SeedLinks(CollAdd(Bystanders, db2, "courses", "5", "Database Systems",
                                  CourseMeta(links)),
                          db2, links),
                move_course_db1(db2), n)

\* the greatest number of reviews of course 5 in an initial state
MaxSeedReviews == 2

CourseSeedStores ==
    {SeedCourse(db2, links, n) :
        db2 \in {"db21", "db22"}, links \in {"none", "same", "other"},
        n \in 0..MaxSeedReviews}

InitCourses ==
    /\ store \in CourseSeedStores
    /\ pc = "idle"
    /\ op = "none"
    /\ loc = NoLoc
    /\ resp = NoResp
    /\ pre = store
    /\ log = <<>>
    /\ nreq = 0

\* the courses that requests name: 5 exists, 3 does not
CourseIds == {"5", "3"}

TargetDbs == {"db21", "db22", " DB22 ", "db11"}

\* the uuid4 values a review may be given
Uuids == {"u1", "u2"}

AllReviewIds(st) == UNION {Ids(st, db, "course_review") : db \in DBs}

Faults == {"ok", "no collection", "raise"}

DeleteCourse ==
    \/ \E course_id \in CourseIds, skipped \in SUBSET SeqRange(Databases("DBVS2")),
          raised \in BOOLEAN :
          delete_course_begin(course_id, skipped, raised)
    \/ \E ok \in BOOLEAN : delete_course_delete(ok)
    \/ \E ok \in BOOLEAN : delete_course_exam_open(ok)
    \/ \E ok \in BOOLEAN : delete_course_exam_get(ok)
    \/ \E ok \in BOOLEAN : delete_course_exam_delete(ok)
    \/ \E ok \in BOOLEAN : delete_course_exam_restore(ok)
    \/ \E outcome \in Faults : delete_course_reviews(outcome)
    \/ \E ok \in BOOLEAN : delete_course_restore_open(ok)
    \/ \E ok \in BOOLEAN : delete_course_restore_course(ok)
    \/ \E ok \in BOOLEAN : delete_course_restore_exam(ok)

MoveCourse ==
    \/ \E course_id \in CourseIds, target_db \in TargetDbs :
          move_course_begin(course_id, target_db)
    \/ \E skipped \in SUBSET SeqRange(Databases("DBVS2")),
          unread \in SUBSET {"exams", "programs"}, raised \in BOOLEAN :
          move_course_scan(skipped, unread, raised)
    \/ \E add_ok \in BOOLEAN, upd_ok \in BOOLEAN : move_course_add(add_ok, upd_ok)
    \/ \E ok \in BOOLEAN : move_course_delete(ok)
    \/ \E outcome \in Faults : move_course_reviews(outcome)
    \/ \E rid \in AllReviewIds(store), add_ok \in BOOLEAN, upd_ok \in BOOLEAN :
          move_course_review_add(rid, add_ok, upd_ok)
    \/ \E ok \in BOOLEAN : move_course_reviews_delete(ok)
    \/ \E add_ok \in BOOLEAN, upd_ok \in BOOLEAN : move_course_restore(add_ok, upd_ok)
    \/ \E ok \in BOOLEAN : move_course_restore_delete(ok)
    \/ \E ok \in BOOLEAN : move_course_cleanup_reviews(ok)

UpgradeCourse ==
    \E course_id \in CourseIds, skipped \in SUBSET SeqRange(Databases("DBVS2")),
       raised \in BOOLEAN :
       upgrade_course_begin(course_id, skipped, raised)

AddCourseReview ==
    \/ \E course_id \in {ParseInt(c) : c \in CourseIds},
          rid \in Uuids \ AllReviewIds(store),
          skipped \in SUBSET SeqRange(Databases("DBVS2")) :
          add_course_review_begin(course_id, "Great course!", rid, skipped)
    \/ \E ok \in BOOLEAN : add_course_review_add(ok)

NextCourses == DeleteCourse \/ MoveCourse \/ UpgradeCourse \/ AddCourseReview

SpecCourses == InitCourses /\ [][NextCourses]_vars

----------------------------------------------------------------------------
(* What the claims speak of *)

\* the request named has been answered
Done(name) == pc = "idle" /\ op = name

IsError == resp.status >= 400

Dbvs1 == SeqRange(Databases("DBVS1"))

Dbvs2 == SeqRange(Databases("DBVS2"))

\* a write of the kind and role, to a database of dbs, with the outcome
Wrote(kind, role, dbs, ok) ==
    \E i \in 1..Len(log) :
        /\ log[i].call = kind
        /\ log[i].role = role
        /\ log[i].db \in dbs
        /\ log[i].ok = ok

\* a compensating call on a database of dbs raised
CompensationFailed(dbs) ==
    \E i \in 1..Len(log) :
        log[i].role = "compensate" /\ ~log[i].ok /\ log[i].db \in dbs \cup {"any"}

\* no call of the request raised
FaultFree == \A i \in 1..Len(log) : log[i].ok

\* the row of id is in the collection as it was when the request began
AsBefore(db, coll, id) ==
    /\ id \in Ids(pre, db, coll)
    /\ id \in Ids(store, db, coll)
    /\ Rows(store, db, coll)[id] = Rows(pre, db, coll)[id]

----------------------------------------------------------------------------
(* C1 *)

InsertDbvs2Failed ==
    /\ Done("insert_student")
    /\ Wrote("add", "forward", Dbvs1, TRUE)
    /\ Wrote("add", "forward", Dbvs2, FALSE)

\* C1 as stated: if the academic write of insert_student succeeds and the
\* personal write then fails, an error is returned and the academic
\* partition holds no record with the allocated id.
C1_Original ==
    InsertDbvs2Failed =>
        /\ IsError
        /\ loc.student_id \notin Ids(store, loc.db_dbvs1, "students")

\* C1, amended: if the academic write of insert_student succeeds, the
\* personal write then fails and the compensating delete does not fail, an
\* error is returned and the academic partition holds no record with the
\* allocated id.
C1_InsertRolledBack ==
    (InsertDbvs2Failed /\ ~CompensationFailed(Dbvs1)) =>
        /\ IsError
        /\ loc.student_id \notin Ids(store, loc.db_dbvs1, "students")

C1_Witness == InsertDbvs2Failed /\ ~CompensationFailed(Dbvs1)

----------------------------------------------------------------------------
(* C2 *)

\* C2: after a successful insert_student with study_year y in 1..4, the
\* academic partition of y (db11 for 1-2, db12 for 3-4) and the personal
\* partition of y (db21, db22) each hold a record under the returned id,
\* with the submitted document and study_year = y.
C2_InsertThenRead ==
    (/\ Done("insert_student")
     /\ resp.status = 200
     /\ loc.meta_in["study_year"].kind \in {"int", "str"}) =>
        LET y  == ParseInt(loc.meta_in["study_year"].text)
            id == Str(loc.student_id_int)
            academic == IF y <= 2 THEN "db11" ELSE "db12"
            personal == IF y <= 2 THEN "db21" ELSE "db22"
        IN  /\ y \in 1..4
            /\ \A db \in {academic, personal} :
                  /\ id \in Ids(store, db, "students")
                  /\ Rows(store, db, "students")[id].document = loc.document
                  /\ Rows(store, db, "students")[id].metadata["study_year"] = y

C2_Witness ==
    /\ Done("insert_student")
    /\ resp.status = 200
    /\ loc.study_year = 3
    /\ loc.student_id_int = 2

----------------------------------------------------------------------------
(* C3 *)

DeleteDbvs2Failed ==
    /\ Done("delete_student")
    /\ Wrote("delete", "forward", Dbvs1, TRUE)
    /\ Wrote("delete", "forward", Dbvs2, FALSE)

\* C3 as stated: if delete_student deleted the academic record and the
\* personal delete then fails, an error is returned, the academic record
\* is again in its partition with the document and metadata captured
\* before the delete, and the personal record is still present.
C3_Original ==
    DeleteDbvs2Failed =>
        /\ IsError
        /\ AsBefore(loc.s1.db, "students", loc.sid)
        /\ AsBefore(loc.s2.db, "students", loc.sid)

\* C3, amended: the same, provided the compensating re-insert does not
\* fail.
C3_DeleteRolledBack ==
    (DeleteDbvs2Failed /\ ~CompensationFailed(Dbvs1)) =>
        /\ IsError
        /\ AsBefore(loc.s1.db, "students", loc.sid)
        /\ AsBefore(loc.s2.db, "students", loc.sid)

C3_Witness == DeleteDbvs2Failed /\ ~CompensationFailed(Dbvs1)

----------------------------------------------------------------------------
(* C4 *)

\* upgrade_student_year applied its DBVS1 step and ended without success
UpgradeDbvs2Failed ==
    /\ Done("upgrade_student_year")
    /\ "server" \in DOMAIN loc
    /\ loc.server = "DBVS2"
    /\ resp.status # 200

\* C4: whenever the DBVS2 step of upgrade_student_year fails, for any
\* reason, after the DBVS1 step was applied, and the compensation does not
\* fail, the academic record is back in its original partition with its
\* original study_year and metadata when the error is returned.
C4_Claim ==
    (UpgradeDbvs2Failed /\ ~CompensationFailed(Dbvs1)) =>
        /\ IsError
        /\ AsBefore(loc.s1.db, "students", loc.sid)

----------------------------------------------------------------------------
(* C5 *)

\* C5: delete_course, no call failing, on a course with N >= 1 reviews in
\* the paired academic partition succeeds, reports N deleted reviews, and
\* leaves the course absent from its source partition and the N reviews
\* absent from the paired partition.
C5_Claim ==
    (/\ Done("delete_course")
     /\ "source_db2" \in DOMAIN loc
     /\ FaultFree
     /\ MatchingReviews(pre, loc.peer_db1, loc.course_id_str) # {}) =>
        /\ resp.status = 200
        /\ loc.deleted_reviews =
              Cardinality(MatchingReviews(pre, loc.peer_db1, loc.course_id_str))
        /\ loc.course_id_str \notin Ids(store, loc.source_db2, "courses")
        /\ MatchingReviews(store, loc.peer_db1, loc.course_id_str) = {}

----------------------------------------------------------------------------
(* C6 *)

DeleteCourseReviewsFailed ==
    /\ Done("delete_course")
    /\ "review_error" \in DOMAIN loc
    /\ loc.review_error

\* the course, and the exam of its id if there was one, are as before,
\* and so is every review of the paired partition
DeleteCourseUndone ==
    /\ AsBefore(loc.source_db2, "courses", loc.course_id_str)
    /\ loc.course_id_str \in Ids(pre, loc.source_db2, "exams") =>
          AsBefore(loc.source_db2, "exams", loc.course_id_str)
    /\ Rows(store, loc.peer_db1, "course_review") = Rows(pre, loc.peer_db1, "course_review")

\* C6 as stated: if the review-deletion step of delete_course fails after
\* the course and its exam were deleted, an error is returned, the course
\* and the exam are in the source partition with their original document
\* and metadata, and no review has been removed.
C6_Original == DeleteCourseReviewsFailed => (IsError /\ DeleteCourseUndone)

\* C6, amended: the same, provided no compensating action fails.
C6_DeleteCourseRolledBack ==
    (DeleteCourseReviewsFailed /\ ~CompensationFailed(Dbvs2)) =>
        (IsError /\ DeleteCourseUndone)

C6_Witness ==
    /\ DeleteCourseReviewsFailed
    /\ ~CompensationFailed(Dbvs2)
    /\ loc.exam_deleted

----------------------------------------------------------------------------
(* C7, C8, C9 *)

\* move_course (or upgrade_course through it) began to move the course
Moving ==
    /\ pc = "idle"
    /\ op \in {"move_course", "upgrade_course"}
    /\ "phase" \in DOMAIN loc

\* the entities that were found in the source: the course, its exam, its program
Moved == {e \in DOMAIN loc.ent : loc.ent[e].has}

MovedCollections == {"courses", "exams", "programs"}

ReviewsBefore == MatchingReviews(pre, loc.src_db1, loc.course_id_str)

MoveCourseUndone ==
    /\ \A e \in Moved :
          /\ AsBefore(loc.source_db2, loc.ent[e].coll, loc.ent[e].id)
          /\ loc.ent[e].id \notin Ids(store, loc.target_db2, loc.ent[e].coll)
    /\ \A rid \in ReviewsBefore : AsBefore(loc.src_db1, "course_review", rid)
    /\ loc.moved_review_ids \cap Ids(store, loc.tgt_db1, "course_review") = {}

\* C7 as stated: if the migration of the reviews fails, an error is
\* returned, the course, its exam and its program are in the source
\* personal partition and not in the target, every matching review is
\* still in the source academic partition and none of the migrated
\* reviews remains in the target academic partition.
C7_Original ==
    (Moving /\ loc.phase = 2 /\ resp.status # 200) => (IsError /\ MoveCourseUndone)

\* C7, amended: the same, provided no compensating action fails.
C7_MoveReviewsRolledBack ==
    (Moving /\ loc.phase = 2 /\ resp.status # 200 /\ ~CompensationFailed(DBs)) =>
        (IsError /\ MoveCourseUndone)

C7_Witness ==
    /\ Moving
    /\ loc.phase = 2
    /\ resp.status # 200
    /\ ~CompensationFailed(DBs)
    /\ Moved = {"course", "exam", "program"}
    /\ Cardinality(loc.moved_review_ids) = 2

\* C8: if a step of moving course, exam or program fails and every
\* compensating action succeeds, the courses, exams and programs
\* collections of the source and of the target personal partition are as
\* they were before the operation.
C8_Claim ==
    (Moving /\ loc.phase = 1 /\ resp.status # 200 /\ ~CompensationFailed(DBs)) =>
        \A db \in {loc.source_db2, loc.target_db2}, coll \in MovedCollections :
            Rows(store, db, coll) = Rows(pre, db, coll)

\* C9: after a successful move_course to the sibling partition, the
\* course, the exam of its exam_id and the program of its program_id are
\* absent from the source and present in the target, every review of the
\* source's paired academic partition with the course's id is absent there
\* and present in the target's paired partition, and moved_reviews is the
\* number of these reviews.
C9_Claim ==
    (Moving /\ resp.status = 200) =>
        /\ \A key \in {"exam_id", "program_id"} :
              LET coll == IF key = "exam_id" THEN "exams" ELSE "programs"
                  meta == Rows(pre, loc.source_db2, "courses")[loc.course_id_str].metadata
              IN  (key \in DOMAIN meta /\ Str(meta[key]) \in Ids(pre, loc.source_db2, coll))
                     => /\ Str(meta[key]) \notin Ids(store, loc.source_db2, coll)
                        /\ Str(meta[key]) \in Ids(store, loc.target_db2, coll)
        /\ loc.course_id_str \notin Ids(store, loc.source_db2, "courses")
        /\ loc.course_id_str \in Ids(store, loc.target_db2, "courses")
        /\ \A rid \in ReviewsBefore :
              /\ rid \notin Ids(store, loc.src_db1, "course_review")
              /\ rid \in Ids(store, loc.tgt_db1, "course_review")
        /\ Cardinality(loc.moved_review_ids) = Cardinality(ReviewsBefore)

----------------------------------------------------------------------------
(* C10 *)

\* the responses that report a failure of the rollback
RollbackFailureReports ==
    {"Insert into DBVS2 failed; Rollback of DBVS1 also failed",
     "Failed to delete related exam; also failed to restore course",
     "Failed to delete related course_review items; also failed to restore",
     "Failed moving course within DBVS2; rollback failed",
     "Failed moving course_reviews; rollback failed"}

\* C10: in every saga, if a compensating action fails, the error returned
\* reports that failure together with the original one.
C10_Claim ==
    (pc = "idle" /\ CompensationFailed(DBs)) =>
        (IsError /\ resp.detail \in RollbackFailureReports)

----------------------------------------------------------------------------
(* C11 *)

\* the rollback called for the restore of the row of coll in db
RestoreAttempted(db, coll) ==
    \E i \in 1..Len(log) :
        /\ log[i].role = "compensate"
        /\ log[i].call \in {"add", "update"}
        /\ log[i].db = db
        /\ log[i].coll = coll

\* move_course ended in failure: each entity it had marked moved has had
\* its restore to the source attempted
MoveCourseRestoresAttempted ==
    (Moving /\ resp.status # 200) =>
        \A e \in DOMAIN loc.ent :
            loc.moved[e] => RestoreAttempted(loc.source_db2, loc.ent[e].coll)

\* delete_course failed at its reviews: the restore of the course, and of
\* the exam if it was deleted, has been attempted
DeleteCourseRestoresAttempted ==
    DeleteCourseReviewsFailed =>
        /\ RestoreAttempted(loc.source_db2, "courses")
        /\ loc.exam_deleted => RestoreAttempted(loc.source_db2, "exams")

\* C11: in the rollback of a saga a failing compensating action does not
\* stop the remaining ones: every step that was applied has its
\* compensation attempted (move_course: program, exam and course;
\* delete_course: course and exam).
C11_Claim == MoveCourseRestoresAttempted /\ DeleteCourseRestoresAttempted

----------------------------------------------------------------------------
(* C12 *)

\* the study_year of the student record of id in db
YearOf(db, id) == Rows(store, db, "students")[id].metadata["study_year"]

\* C12: between requests, whenever a student id has an academic record and
\* a personal record, the study_year of the two records is the same; the
\* initial states have it, and insert_student, upgrade_student_year and
\* delete_student run with faults at any of their steps.
C12_Claim ==
    pc = "idle" =>
        \A a \in Dbvs1, p \in Dbvs2 :
            \A id \in Ids(store, a, "students") \cap Ids(store, p, "students") :
                YearOf(a, id) = YearOf(p, id)

----------------------------------------------------------------------------
(* C13 *)

\* upgrade_student_year was asked for a student whose study_year is 2 in
\* both domains when the request began
UpgradeFromTwo ==
    /\ Done("upgrade_student_year")
    /\ \A db \in {"db11", "db21"} :
          /\ loc.sid \in Ids(pre, db, "students")
          /\ Rows(pre, db, "students")[loc.sid].metadata["study_year"] = 2

\* the record of the student went from db old to db new with study_year 3,
\* its document and the rest of its metadata kept
MovedToThree(old, new) ==
    /\ loc.sid \notin Ids(store, old, "students")
    /\ loc.sid \in Ids(store, new, "students")
    /\ LET was == Rows(pre, old, "students")[loc.sid]
           is  == Rows(store, new, "students")[loc.sid]
       IN  /\ is.document = was.document
           /\ is.metadata = [was.metadata EXCEPT !["study_year"] = 3]

\* the records that upgrade_student_year found for the student are those
\* of db11 and db21, with study_year 2
LocatedAtTwo ==
    /\ "current_year" \in DOMAIN loc
    /\ loc.current_year = 2
    /\ loc.s1.db = "db11"
    /\ loc.s2.db = "db21"

\* C13: upgrading a student whose study_year is 2 in both domains, no call
\* failing, succeeds; and whenever the upgrade of the records found in
\* db11 and db21 with study_year 2 succeeds, the record is absent from db11
\* and db21 and present in db12 and db22 with study_year 3.
C13_UpgradeAcrossFragments ==
    UpgradeFromTwo =>
        /\ FaultFree => resp.status = 200 /\ LocatedAtTwo
        /\ (LocatedAtTwo /\ resp.status = 200) =>
              (MovedToThree("db11", "db12") /\ MovedToThree("db21", "db22"))

C13_Witness == UpgradeFromTwo /\ resp.status = 200 /\ FaultFree

----------------------------------------------------------------------------
(* Routing and validation: resolve_fragment applied to any year, beside    *)
(* the two handlers that validate their input before they resolve          *)

\* resolve_fragment is given years from -MaxProbeYear to MaxProbeYear
MaxProbeYear == 8

ProbeYears == (0 - MaxProbeYear)..MaxProbeYear

\* lines 80-88: the database is returned, or HTTPException 400 is raised
resolve_fragment_call(server_name, study_year) ==
    /\ Begin("resolve_fragment", FALSE)
    /\ LET database == resolve_fragment(server_name, study_year)
       IN  /\ loc' = [server_name |-> server_name, study_year |-> study_year,
                      database |-> database]
           /\ Finish(IF database = NoFragment
                        THEN Http(400, "No fragment found for study_year")
                        ELSE Http(200, database))
    /\ UNCHANGED store

ResolveFragment ==
    \E server_name \in SeqRange(ServerNames), study_year \in ProbeYears :
        resolve_fragment_call(server_name, study_year)

\* course 5 with its exam, its program and a review, in either fragment
RoutingSeedStores == {SeedCourse(db2, "same", 1) : db2 \in {"db21", "db22"}}

InitRouting ==
    /\ store \in RoutingSeedStores
    /\ pc = "idle"
    /\ op = "none"
    /\ loc = NoLoc
    /\ resp = NoResp
    /\ pre = store
    /\ log = <<>>
    /\ nreq = 0

NextRouting == ResolveFragment \/ InsertStudent \/ MoveCourse

SpecRouting == InitRouting /\ [][NextRouting]_vars

----------------------------------------------------------------------------
(* C14 *)

\* the rules of the server's fragment map whose range contains the year
RulesContaining(server_name, study_year) ==
    {t \in SeqRange(FragTypes) :
        /\ FRAGMENTS[server_name][t].year_range[1] <= study_year
        /\ study_year <= FRAGMENTS[server_name][t].year_range[2]}

\* the partition of the year: 1-2 -> db11/db21, 3-4 -> db12/db22
PartitionOf(server_name, study_year) ==
    IF server_name = "DBVS1"
        THEN (IF study_year <= 2 THEN "db11" ELSE "db12")
        ELSE (IF study_year <= 2 THEN "db21" ELSE "db22")

\* C14: for every study_year in 1..4 and each domain, exactly one rule of
\* the domain's fragment map contains the year and resolve_fragment
\* returns that rule's partition (1-2 -> db11/db21, 3-4 -> db12/db22).
C14_ResolveExactlyOne ==
    (Done("resolve_fragment") /\ loc.study_year \in 1..4) =>
        /\ Cardinality(RulesContaining(loc.server_name, loc.study_year)) = 1
        /\ resp.status = 200
        /\ loc.database = PartitionOf(loc.server_name, loc.study_year)

C14_Witness ==
    /\ Done("resolve_fragment")
    /\ loc.study_year = 3
    /\ loc.server_name = "DBVS2"
    /\ loc.database = "db22"

----------------------------------------------------------------------------
(* C15 *)

\* the study_year that the request gave is no integer: a float, or a
\* string that is not a numeral
NonIntegerYear(v) == v.kind = "float" \/ (v.kind = "str" /\ ~IsNumeral(v.text))

\* the study_year that the request gave is an integer outside 1..4
OutOfRangeYear(v) == ~NonIntegerYear(v) /\ ParseInt(v.text) \notin 1..4

\* insert_student has answered a request whose study_year is no integer
\* or is out of range
InsertWithBadYear ==
    /\ Done("insert_student")
    /\ "study_year" \in DOMAIN loc.meta_in
    /\ NonIntegerYear(loc.meta_in["study_year"]) \/ OutOfRangeYear(loc.meta_in["study_year"])

\* C15: resolve_fragment fails with the routing error for every year that
\* is not in 1..4, and insert_student rejects a study_year that is no
\* integer or is not in 1..4, resolving no fragment for it.
C15_Claim ==
    /\ (Done("resolve_fragment") /\ loc.study_year \notin 1..4) =>
          (loc.database = NoFragment /\ resp.status = 400)
    /\ InsertWithBadYear =>
          (resp.status = 400 /\ "db_dbvs1" \notin DOMAIN loc)

----------------------------------------------------------------------------
(* C16 *)

\* insert_student refused the request at its validation
InsertRejected == Done("insert_student") /\ resp.status = 400

\* move_course refused the target_db of the request
TargetRejected ==
    /\ op = "move_course"
    /\ pc = "idle"
    /\ resp = Http(400, "target_db must be 'db21' or 'db22'")

\* C16: an insert_student rejected at validation (study_year, final_score,
\* name, surname or email) and a move_course rejected for its target_db
\* leave every record of every partition as it was and call for no write.
C16_RejectedWithoutEffect ==
    (InsertRejected \/ TargetRejected) => (store = pre /\ log = <<>>)

C16_Witness ==
    /\ InsertRejected
    /\ "surname" \notin DOMAIN loc.meta_in
    /\ store # EmptyStore

----------------------------------------------------------------------------
(* C17 *)

\* no partition of the server held a student record of id when the
\* request began
MissingIn(server_name, id) ==
    \A db \in SeqRange(Databases(server_name)) : id \notin Ids(pre, db, "students")

\* C17: delete_student on an id that is missing from the academic domain,
\* from the personal domain or from both fails and changes no record, so
\* that a record held by one domain only stays; the failure is the
\* not-found error 404 unless a read of the scan itself raised.
C17_DeleteNotFound ==
    (Done("delete_student")
        /\ (MissingIn("DBVS1", loc.sid) \/ MissingIn("DBVS2", loc.sid))) =>
        /\ IsError
        /\ FaultFree => resp.status = 404
        /\ resp.status # 404 => resp = Unhandled
        /\ store = pre
        /\ \A i \in 1..Len(log) : log[i].call = "read"

C17_Witness ==
    /\ Done("delete_student")
    /\ ~MissingIn("DBVS1", loc.sid)
    /\ MissingIn("DBVS2", loc.sid)
    /\ FaultFree
    /\ resp.status = 404

----------------------------------------------------------------------------
(* upgrade_student_year on records as the loaders may leave them: in one   *)
(* domain only, without study_year, or with two different study_year      *)

\* student 1 with academic metadata a in the fragment of year ya and
\* personal metadata p in the fragment of year yp; 0 for a domain without
\* the student
SeedSplit(ya, a, yp, p) ==
    LET one == IF ya = 0 THEN EmptyStore
               ELSE CollAdd(EmptyStore, resolve_fragment("DBVS1", ya), "students",
                            "1", "review", a)
    IN  IF yp = 0 THEN one
        ELSE CollAdd(one, resolve_fragment("DBVS2", yp), "students", "1", "letter", p)

WithoutYear(meta) == Restrict(meta, DOMAIN meta \ {"study_year"})

UpgradeSeedStores ==
    SeedStores
      \cup {SeedSplit(1, AcademicMeta(1), 0, EmptyMap),
            SeedSplit(0, EmptyMap, 1, PersonalMeta(1, 1)),
            SeedSplit(2, WithoutYear(AcademicMeta(2)), 2, PersonalMeta(1, 2)),
            SeedSplit(2, AcademicMeta(2), 2, WithoutYear(PersonalMeta(1, 2))),
            SeedSplit(2, AcademicMeta(2), 3, PersonalMeta(1, 3)),
            SeedSplit(4, AcademicMeta(4), 3, PersonalMeta(1, 3))}

InitUpgrade ==
    /\ store \in UpgradeSeedStores
    /\ pc = "idle"
    /\ op = "none"
    /\ loc = NoLoc
    /\ resp = NoResp
    /\ pre = store
    /\ log = <<>>
    /\ nreq = 0

SpecUpgrade == InitUpgrade /\ [][UpgradeStudentYear]_vars

----------------------------------------------------------------------------
(* C18 *)

\* the record of the student that the scan of the server finds first, as
\* the request began
FirstRecord(server_name) == locate_student(pre, server_name, loc.sid, {})

MissingSomewhere == \E s \in {"DBVS1", "DBVS2"} : ~FirstRecord(s).found

YearMissing ==
    /\ ~MissingSomewhere
    /\ \E s \in {"DBVS1", "DBVS2"} : "study_year" \notin DOMAIN FirstRecord(s).meta

YearsDiffer ==
    /\ ~MissingSomewhere
    /\ ~YearMissing
    /\ FirstRecord("DBVS1").meta["study_year"] # FirstRecord("DBVS2").meta["study_year"]

AtMaximum ==
    /\ ~MissingSomewhere
    /\ ~YearMissing
    /\ ~YearsDiffer
    /\ FirstRecord("DBVS1").meta["study_year"] = 4

\* no domain held the student in two of its partitions when the request began
OneRecordPerDomain ==
    \A s \in {"DBVS1", "DBVS2"} :
        Cardinality({db \in SeqRange(Databases(s)) :
                        loc.sid \in Ids(pre, db, "students")}) <= 1

----------------------------------------------------------------------------
(* C19 *)

\* delete_course deleted the course and then failed at the exam of its id:
\* at the client or the collection of the exams, at the lookup of the exam
\* or at its delete
DeleteCourseExamFailed ==
    /\ Done("delete_course")
    /\ "exam_error" \in DOMAIN loc
    /\ loc.exam_error # None

\* C19: if delete_course deleted the course and then fails to locate or to
\* delete the exam of the same id, and the restore of the course does not
\* itself fail, a failure is returned, the course is in its source
\* partition with its original document and metadata, and no review has
\* been deleted.
C19_Claim ==
    (DeleteCourseExamFailed /\ ~CompensationFailed(Dbvs2)) =>
        /\ IsError
        /\ AsBefore(loc.source_db2, "courses", loc.course_id_str)
        /\ Rows(store, loc.peer_db1, "course_review") = Rows(pre, loc.peer_db1, "course_review")

----------------------------------------------------------------------------
(* C20 *)

\* the personal partitions that held the course when the request began
HoldersOf(course_id_str) ==
    {db \in Dbvs2 : course_id_str \in Ids(pre, db, "courses")}

\* db21 -> db11, db22 -> db12
PairedAcademic(db2) == IF db2 = "db21" THEN "db11" ELSE "db12"

\* the store differs from the one of the beginning of the request by one
\* review, new in db1, whose course_id is that of the request
OneReviewAdded(db1) ==
    LET new == Ids(store, db1, "course_review") \ Ids(pre, db1, "course_review")
    IN  /\ Cardinality(new) = 1
        /\ \A rid \in new :
              /\ Rows(store, db1, "course_review")[rid].metadata["course_id"] = loc.course_id
              /\ store = CollAdd(pre, db1, "course_review", rid,
                                 Rows(store, db1, "course_review")[rid].document,
                                 Rows(store, db1, "course_review")[rid].metadata)

\* C20: add_course_review answered 200 has stored one new review, with the
\* course_id of the request, in the academic partition paired with the
\* personal partition that holds the course (db21 -> db11, db22 -> db12)
\* and has changed nothing else; answered otherwise it has written nothing;
\* and for a course that no personal partition holds it answers 404.
C20_ReviewInPairedPartition ==
    Done("add_course_review") =>
        /\ resp.status = 200 =>
              \E db2 \in HoldersOf(Str(loc.course_id)) : OneReviewAdded(PairedAcademic(db2))
        /\ resp.status # 200 => store = pre
        /\ HoldersOf(Str(loc.course_id)) = {} =>
              (resp.status = 404 /\ log = ReadFaults("forward", ~FaultFree))
        /\ (HoldersOf(Str(loc.course_id)) # {} /\ FaultFree) => resp.status = 200

C20_Witness ==
    /\ Done("add_course_review")
    /\ resp.status = 200
    /\ HoldersOf(Str(loc.course_id)) = {"db22"}
    /\ "u1" \in Ids(store, "db12", "course_review")

----------------------------------------------------------------------------
(* get_all_students *)

\* dict.update
Update(m, u) ==
    [k \in (DOMAIN m) \cup (DOMAIN u) |-> IF k \in DOMAIN u THEN u[k] ELSE m[k]]

\* lines 860-892: per server, the first row seen of every id in the order
\* of FRAGMENTS; skipped are the databases whose scan raised (863-868,
\* 891-892)
aggregated(st, server_name, skipped) ==
    LET dbs  == Databases(server_name)
        seen == {i \in 1..Len(dbs) : dbs[i] \notin skipped}
        ids  == UNION {Ids(st, dbs[i], "students") : i \in seen}
    IN  [mid \in ids |->
            Rows(st, dbs[Min({i \in seen : mid \in Ids(st, dbs[i], "students")})],
                 "students")[mid]]

\* aggregated[server].get(mid, {}): the entry without document or metadata
\* reads as None and as a metadata that updates nothing
entry_of(agg, mid) == IF mid \in DOMAIN agg THEN agg[mid] ELSE Row(None, EmptyMap)

\* the merge with the personal record applied last
merged_dbvs2_last(dbvs1_entry, dbvs2_entry) ==
    Update(Update(EmptyMap, dbvs1_entry.metadata), dbvs2_entry.metadata)

\* lines 904-908
merged(dbvs1_entry, dbvs2_entry) ==
    Update(Update(EmptyMap, dbvs2_entry.metadata), dbvs1_entry.metadata)

\* lines 910-918
OutputFields ==
    {"student_id", "name", "surname", "email", "final_score", "timestamp",
     "study_year"}

\* the fields without the default of None
fields_present_only(mid, m) ==
    [k \in OutputFields \cap DOMAIN m |-> m[k]]

\* lines 910-925
fields(mid, m) ==
    [k \in OutputFields |->
        IF k \in DOMAIN m THEN m[k]
        ELSE IF k = "student_id" THEN mid ELSE None]

\* lines 896-932, one entry
student_entry(agg1, agg2, mid) ==
    LET dbvs1_entry == entry_of(agg1, mid)
        dbvs2_entry == entry_of(agg2, mid)
    IN  [id |-> mid,
         review |-> dbvs1_entry.document,
         motivational_letter |-> dbvs2_entry.document,
         metadata |-> fields(mid, merged(dbvs1_entry, dbvs2_entry))]

\* lines 894-932: the list, in the order in which the set of ids is iterated
RECURSIVE students_list(_, _, _)
students_list(agg1, agg2, mids) ==
    IF mids = {} THEN <<>>
    ELSE LET mid == CHOOSE x \in mids : TRUE
         IN  <<student_entry(agg1, agg2, mid)>>
                \o students_list(agg1, agg2, mids \ {mid})

get_all_students(skipped) ==
    /\ Begin("get_all_students", skipped # {})
    /\ LET agg1 == aggregated(store, "DBVS1", skipped)
           agg2 == aggregated(store, "DBVS2", skipped)
           all_merge_ids == (DOMAIN agg1) \cup (DOMAIN agg2)
       IN  loc' = [students |-> students_list(agg1, agg2, all_merge_ids)]
    /\ Finish(Http(200, "students"))
    /\ UNCHANGED store

GetAllStudents == \E skipped \in SUBSET DBs : get_all_students(skipped)

NextStudents == GetAllStudents \/ InsertStudent \/ DeleteStudent \/ UpgradeStudentYear

\* the student handlers and the merged view, on the stores of the loaders
SpecStudents == InitUpgrade /\ [][NextStudents]_vars

----------------------------------------------------------------------------
(* C21 *)

\* the entries of the view of the last request for an id
EntriesOf(mid) == {i \in 1..Len(loc.students) : loc.students[i].id = mid}

\* the record that the scan of a domain meets first
AcademicRecord(mid) ==
    IF mid \in Ids(store, "db11", "students")
       THEN Rows(store, "db11", "students")[mid]
       ELSE Rows(store, "db12", "students")[mid]

PersonalRecord(mid) ==
    IF mid \in Ids(store, "db21", "students")
       THEN Rows(store, "db21", "students")[mid]
       ELSE Rows(store, "db22", "students")[mid]

InBothDomains(mid) ==
    /\ \E db \in Dbvs1 : mid \in Ids(store, db, "students")
    /\ \E db \in Dbvs2 : mid \in Ids(store, db, "students")

\* a metadata key of the view on which the two records of mid disagree
Disagree(mid, k) ==
    /\ InBothDomains(mid)
    /\ k \in DOMAIN AcademicRecord(mid).metadata
    /\ k \in DOMAIN PersonalRecord(mid).metadata
    /\ AcademicRecord(mid).metadata[k] # PersonalRecord(mid).metadata[k]

\* C21 as stated: where the two records of a student disagree on a key, the
\* view reports the value of the personal record
C21_Original ==
    (Done("get_all_students") /\ FaultFree) =>
        \A mid \in AllStudentIds(store), k \in OutputFields : \A i \in EntriesOf(mid) :
            Disagree(mid, k) =>
                loc.students[i].metadata[k] = PersonalRecord(mid).metadata[k]

\* C21: where the academic and the personal record of a student disagree on
\* a metadata key, the merged view reports the value of the academic record
\* (the scan having reached every partition).
C21_AcademicTakesPrecedence ==
    (Done("get_all_students") /\ FaultFree) =>
        \A mid \in AllStudentIds(store), k \in OutputFields : \A i \in EntriesOf(mid) :
            Disagree(mid, k) =>
                loc.students[i].metadata[k] = AcademicRecord(mid).metadata[k]

C21_Witness ==
    /\ Done("get_all_students")
    /\ FaultFree
    /\ Disagree("1", "study_year")
    /\ EntriesOf("1") # {}
    /\ AcademicRecord("1").metadata["study_year"] = 2
    /\ PersonalRecord("1").metadata["study_year"] = 3

----------------------------------------------------------------------------
(* C22 *)

\* no students row of the id, in any partition, carries the key
AbsentEverywhere(mid, k) ==
    \A db \in DBs :
        mid \in Ids(store, db, "students") =>
            k \notin DOMAIN Rows(store, db, "students")[mid].metadata

\* C22: the merged view has at most one entry per id, each for an id of
\* some students collection, and, when the scan has reached every
\* partition, one for every such id, in one domain or in both; the metadata
\* of every entry has exactly the keys student_id, name, surname, email,
\* final_score, timestamp, study_year, a key that no record of the id
\* carries being None, or the id itself for student_id.
C22_OneEntryFixedFields ==
    Done("get_all_students") =>
        /\ \A i \in 1..Len(loc.students) :
              /\ loc.students[i].id \in AllStudentIds(store)
              /\ EntriesOf(loc.students[i].id) = {i}
              /\ DOMAIN loc.students[i].metadata =
                    {"student_id", "name", "surname", "email", "final_score",
                     "timestamp", "study_year"}
              /\ \A k \in DOMAIN loc.students[i].metadata :
                    AbsentEverywhere(loc.students[i].id, k) =>
                        loc.students[i].metadata[k] =
                            (IF k = "student_id" THEN loc.students[i].id ELSE None)
        /\ FaultFree =>
              \A mid \in AllStudentIds(store) : Cardinality(EntriesOf(mid)) = 1

C22_Witness ==
    /\ Done("get_all_students")
    /\ FaultFree
    /\ Len(loc.students) = 2
    /\ \E i \in 1..Len(loc.students) :
          /\ ~InBothDomains(loc.students[i].id)
          /\ AbsentEverywhere(loc.students[i].id, "name")
          /\ loc.students[i].metadata["name"] = None
          /\ AbsentEverywhere(loc.students[i].id, "student_id")
          /\ loc.students[i].metadata["student_id"] = loc.students[i].id

----------------------------------------------------------------------------
(* Concurrent insert_student.  The handlers are plain def functions, which *)
(* the framework runs on a pool of threads: two requests interleave at     *)
(* every gateway call.  Here pc, loc and resp are per caller, log is the   *)
(* set of the write calls that the callers have attempted, pre is the      *)
(* store before the first request, and loc[c].scan records how the scan of *)
(* caller c went: whether every read succeeded, and whether it ran before  *)
(* the first write call of any caller.                                     *)

\* the number of concurrent callers, each with one request
MaxCallers == 2

Callers == 1..MaxCallers

CallBy(c, kind, role, db, ids, ok) ==
    [call |-> kind, role |-> role, db |-> db, coll |-> "students", ids |-> ids,
     ok |-> ok, caller |-> c]

\* the request of caller c: its document tells the callers apart
RaceInputs(c) ==
    {[document |-> Str(c), metadata |-> FullMeta(Raw("int", Str(y)))] : y \in {1, 3, 5}}

\* lines 105-137
race_insert_begin(c, student) ==
    /\ pc[c] = "idle"
    /\ resp[c] = NoResp
    /\ nreq' = nreq + 1
    /\ LET meta_in == student.metadata
           rej == insert_student_reject(meta_in)
           study_year == insert_student_study_year(meta_in).value
       IN  IF rej # NoResp
              THEN /\ resp' = [resp EXCEPT ![c] = rej]
                   /\ loc' = [loc EXCEPT ![c] = [document |-> student.document,
                                                 meta_in |-> meta_in]]
                   /\ UNCHANGED pc
              ELSE /\ pc' = [pc EXCEPT ![c] = "insert_allocate"]
                   /\ loc' = [loc EXCEPT ![c] =
                                [document   |-> student.document,
                                 meta_in    |-> meta_in,
                                 study_year |-> study_year,
                                 db_dbvs1   |-> resolve_fragment("DBVS1", study_year),
                                 db_dbvs2   |-> resolve_fragment("DBVS2", study_year),
                                 dbvs1_meta |-> insert_student_dbvs1_meta(meta_in, study_year),
                                 student_id_int |-> 0,
                                 student_id |-> None,
                                 dbvs2_meta |-> EmptyMap,
                                 scan |-> None]]
                   /\ UNCHANGED resp
    /\ UNCHANGED <<store, op, pre, log>>

\* the next id that numbers the callers apart
race_next_id_per_caller(c, max_id) == max_id + c

\* line 158
race_next_id(c, max_id) == max_id + 1

\* lines 141-164: the scan of the four partitions, those of skipped being
\* the ones whose read raised and was passed over
race_insert_allocate(c, skipped) ==
    /\ pc[c] = "insert_allocate"
    /\ LET n == race_next_id(c, allocate_next_student_id(store, skipped) - 1)
       IN  loc' = [loc EXCEPT ![c].student_id_int = n,
                              ![c].student_id = Str(n),
                              ![c].dbvs2_meta =
                                  insert_student_dbvs2_meta(
                                      loc[c].meta_in, loc[c].study_year, n),
                              ![c].scan = [ok |-> skipped = {}, first |-> log = {}]]
    /\ pc' = [pc EXCEPT ![c] = "insert_dbvs1"]
    /\ UNCHANGED <<store, resp, op, pre, nreq, log>>

\* lines 177-186
race_insert_add_dbvs1(c, ok) ==
    /\ pc[c] = "insert_dbvs1"
    /\ log' = log \cup {CallBy(c, "add", "forward", loc[c].db_dbvs1,
                                {loc[c].student_id}, ok)}
    /\ IF ok
          THEN /\ store' = CollAdd(store, loc[c].db_dbvs1, "students", loc[c].student_id,
                                   loc[c].document, loc[c].dbvs1_meta)
               /\ pc' = [pc EXCEPT ![c] = "insert_dbvs2"]
               /\ UNCHANGED resp
          ELSE /\ pc' = [pc EXCEPT ![c] = "idle"]
               /\ resp' = [resp EXCEPT ![c] = Http(500, "Insert into DBVS1 failed")]
               /\ UNCHANGED store
    /\ UNCHANGED <<loc, op, pre, nreq>>

\* lines 189-199
race_insert_add_dbvs2(c, ok) ==
    /\ pc[c] = "insert_dbvs2"
    /\ log' = log \cup {CallBy(c, "add", "forward", loc[c].db_dbvs2,
                                {loc[c].student_id}, ok)}
    /\ IF ok
          THEN /\ store' = CollAdd(store, loc[c].db_dbvs2, "students", loc[c].student_id,
                                   loc[c].document, loc[c].dbvs2_meta)
               /\ pc' = [pc EXCEPT ![c] = "idle"]
               /\ resp' = [resp EXCEPT ![c] =
                              Http(200, "Student inserted successfully across DBVS1 and DBVS2")]
          ELSE /\ pc' = [pc EXCEPT ![c] = "insert_rollback"]
               /\ UNCHANGED <<store, resp>>
    /\ UNCHANGED <<loc, op, pre, nreq>>

\* lines 200-214
race_insert_rollback(c, ok) ==
    /\ pc[c] = "insert_rollback"
    /\ log' = log \cup {CallBy(c, "delete", "compensate", loc[c].db_dbvs1,
                                {loc[c].student_id}, ok)}
    /\ pc' = [pc EXCEPT ![c] = "idle"]
    /\ IF ok
          THEN /\ store' = CollDelete(store, loc[c].db_dbvs1, "students",
                                      {loc[c].student_id})
               /\ resp' = [resp EXCEPT ![c] =
                              Http(500, "Insert into DBVS2 failed (rolled back DBVS1)")]
          ELSE /\ resp' = [resp EXCEPT ![c] =
                              Http(500, "Insert into DBVS2 failed; Rollback of DBVS1 also failed")]
               /\ UNCHANGED store
    /\ UNCHANGED <<loc, op, pre, nreq>>

RaceInsertStudent ==
    \E c \in Callers :
        \/ \E student \in RaceInputs(c) : race_insert_begin(c, student)
        \/ \E skipped \in SUBSET DBs : race_insert_allocate(c, skipped)
        \/ \E ok \in BOOLEAN : race_insert_add_dbvs1(c, ok)
        \/ \E ok \in BOOLEAN : race_insert_add_dbvs2(c, ok)
        \/ \E ok \in BOOLEAN : race_insert_rollback(c, ok)

InitRace ==
    /\ store \in {EmptyStore, SeedStudent(EmptyStore, 1, 1)}
    /\ pc = [c \in Callers |-> "idle"]
    /\ op = "insert_student"
    /\ loc = [c \in Callers |-> NoLoc]
    /\ resp = [c \in Callers |-> NoResp]
    /\ pre = store
    /\ log = {}
    /\ nreq = 0

SpecRace == InitRace /\ [][RaceInsertStudent]_vars

----------------------------------------------------------------------------
(* C23 *)

\* caller c has its id
Allocated(c) == pc[c] \in {"insert_dbvs1", "insert_dbvs2", "insert_rollback"}
                \/ (pc[c] = "idle" /\ resp[c] # NoResp /\ "student_id" \in DOMAIN loc[c])

\* the scans of a and b read every partition and came before every write
ScannedBeforeWrites(a, b) ==
    /\ Allocated(a)
    /\ Allocated(b)
    /\ \A c \in {a, b} : loc[c].scan.ok /\ loc[c].scan.first

\* the document of caller c is that of some academic record
Kept(c) ==
    \E db \in Dbvs1 : \E rid \in Ids(store, db, "students") :
        Rows(store, db, "students")[rid].document = loc[c].document

\* C23: two insert_student requests whose scans both end before either
\* writes compute the same id; when both then answer 200 for the same
\* academic partition, that partition holds one record under the id, and
\* the record of one of the two students is lost.
C23_RaceSameId ==
    \A a \in Callers : \A b \in Callers \ {a} :
        ScannedBeforeWrites(a, b) =>
            /\ loc[a].student_id = loc[b].student_id
            /\ (resp[a].status = 200 /\ resp[b].status = 200
                  /\ loc[a].db_dbvs1 = loc[b].db_dbvs1) =>
                  ~(Kept(a) /\ Kept(b))

C23_Witness ==
    /\ ScannedBeforeWrites(1, 2)
    /\ resp[1].status = 200
    /\ resp[2].status = 200
    /\ loc[1].student_id = loc[2].student_id
    /\ loc[1].db_dbvs1 = "db11"
    /\ loc[2].db_dbvs1 = "db11"
    /\ Kept(2)
    /\ ~Kept(1)

----------------------------------------------------------------------------
(* C24 *)

\* the request made no write call
NoWrites == \A i \in 1..Len(log) : log[i].call = "read"

\* the personal partitions whose courses held the course when the request
\* began
CourseHolders == HoldersOf(loc.course_id_str)

\* st with the rows of ids taken from a collection of one database and put
\* into the same collection of another
Relocated(st, from, to, coll, ids) ==
    LET rows == Restrict(st[from][coll], ids \cap Ids(st, from, coll))
    IN  [st EXCEPT ![to][coll] = Update(@, rows), ![from][coll] = Remove(@, ids)]

LinkedId(meta, key) == IF key \in DOMAIN meta THEN {Str(meta[key])} ELSE {}

\* the store after a move of the course from db21 to db22 with its exam,
\* its program and the reviews of db11 that carry its id
UpgradedStore ==
    LET cid  == loc.course_id_str
        meta == Rows(pre, "db21", "courses")[cid].metadata
        s1   == Relocated(pre, "db21", "db22", "courses", {cid})
        s2   == Relocated(s1, "db21", "db22", "exams", LinkedId(meta, "exam_id"))
        s3   == Relocated(s2, "db21", "db22", "programs", LinkedId(meta, "program_id"))
    IN  Relocated(s3, "db11", "db12", "course_review", MatchingReviews(pre, "db11", cid))

\* a request that moves the course from db21 to db22 and meets no fault
MovesUp ==
    /\ \/ Done("upgrade_course")
       \/ Done("move_course") /\ "target_db2" \in DOMAIN loc /\ loc.target_db2 = "db22"
    /\ CourseHolders = {"db21"}
    /\ FaultFree

\* C24: upgrade_course runs the saga of move_course with the target db22:
\* without faults the two leave the same store, the course of db21 moved to
\* db22 with its exam, its program and its reviews.  upgrade_course makes
\* no write when the course is in db22 only and answers not-found, without
\* a write, when no personal partition holds it; move_course makes no
\* write when the course is only in the target that the request names.
C24_UpgradeIsMoveToDb22 ==
    /\ (op = "upgrade_course" /\ "target_db2" \in DOMAIN loc) => loc.target_db2 = "db22"
    /\ MovesUp => (resp.status = 200 /\ store = UpgradedStore)
    /\ (Done("upgrade_course") /\ CourseHolders = {"db22"}) =>
          (NoWrites /\ store = pre /\ (FaultFree => resp.status = 200))
    /\ (Done("upgrade_course") /\ CourseHolders = {}) =>
          (NoWrites /\ store = pre /\ IsError /\ (FaultFree => resp.status = 404))
    /\ (Done("move_course") /\ "target_db2" \in DOMAIN loc
          /\ CourseHolders = {loc.target_db2}) =>
          (NoWrites /\ store = pre /\ (FaultFree => resp.status = 200))

C24_Witness ==
    /\ Done("upgrade_course")
    /\ MovesUp
    /\ store = UpgradedStore
    /\ "exams" \in {c \in Collections : Rows(store, "db22", c) # Rows(pre, "db22", c)}
    /\ Rows(store, "db12", "course_review") # Rows(pre, "db12", "course_review")

----------------------------------------------------------------------------
(* C25 *)

\* the handler in flight runs on: a step that it can take is taken
SpecCoursesFair == SpecCourses /\ WF_vars(NextCourses)

Sagas == {"delete_course", "move_course", "upgrade_course"}

Compensations == {i \in 1..Len(log) : log[i].role = "compensate"}

Committed == resp.status = 200

RolledBack == IsError /\ \A i \in Compensations : log[i].ok

PartiallyRolledBack == IsError /\ \E i \in Compensations : ~log[i].ok

\* the number of the three outcomes that hold
OutcomesHolding ==
    (IF Committed THEN 1 ELSE 0) + (IF RolledBack THEN 1 ELSE 0)
        + (IF PartiallyRolledBack THEN 1 ELSE 0)

----------------------------------------------------------------------------
(* C26 *)

StudentSagas == {"insert_student", "delete_student", "upgrade_student_year"}

\* the calls of the log that are writes
Writes == {i \in 1..Len(log) : log[i].call # "read"}

\* before call j the request wrote to the academic domain, and none of its
\* forward writes there failed
AcademicStepDone(j) ==
    LET before == {i \in Writes : i < j /\ log[i].role = "forward" /\ log[i].db \in Dbvs1}
    IN  before # {} /\ \A i \in before : log[i].ok

\* C26: in insert_student, delete_student and upgrade_student_year every
\* write call on a partition of DBVS2, succeeding or not, comes after the
\* forward writes of the same request on DBVS1, all of which succeeded.
C26_AcademicBeforePersonal ==
    op \in StudentSagas =>
        \A j \in Writes : log[j].db \in Dbvs2 => AcademicStepDone(j)

C26_Witness ==
    /\ Done("upgrade_student_year")
    /\ resp.status = 200
    /\ \E j \in Writes : log[j].db = "db22" /\ log[j].call = "add" /\ AcademicStepDone(j)
    /\ \E j \in Writes : log[j].db = "db21" /\ log[j].call = "delete"

----------------------------------------------------------------------------
(* C27 *)

\* an upgrade from year 1 to 2 or from 3 to 4 is in flight or has ended
UpgradeInPlace ==
    /\ op = "upgrade_student_year"
    /\ "current_year" \in DOMAIN loc
    /\ loc.current_year \in {1, 3}

\* the partition of a domain in which the record stays
HomeOf(server_name) ==
    IF loc.current_year = 1
       THEN (IF server_name = "DBVS1" THEN "db11" ELSE "db21")
       ELSE (IF server_name = "DBVS1" THEN "db12" ELSE "db22")

\* the row of the student as it was, with the next study_year
Promoted(db) ==
    LET row == Rows(pre, db, "students")[loc.sid]
    IN  Row(row.document, [row.metadata EXCEPT !["study_year"] = loc.current_year + 1])

\* C27: an upgrade from year 1 to 2 or from 3 to 4 makes only update calls,
\* on the partition that holds the record, and at no point is a students
\* record created or deleted; on success the two records are the old ones
\* with the new study_year and nothing else has changed; when the update of
\* DBVS1 is rolled back by its compensating update, the store is as it was
\* before the request.
C27_UpgradeInPlace ==
    UpgradeInPlace =>
        /\ \A db \in DBs : Ids(store, db, "students") = Ids(pre, db, "students")
        /\ \A i \in Writes :
              log[i].call = "update" /\ log[i].db \in {HomeOf("DBVS1"), HomeOf("DBVS2")}
        /\ (pc = "idle" /\ resp.status = 200) =>
              store = CollUpdate(CollUpdate(pre, HomeOf("DBVS1"), "students", loc.sid,
                                            Promoted(HomeOf("DBVS1")).document,
                                            Promoted(HomeOf("DBVS1")).metadata),
                                 HomeOf("DBVS2"), "students", loc.sid,
                                 Promoted(HomeOf("DBVS2")).document,
                                 Promoted(HomeOf("DBVS2")).metadata)
        /\ (pc = "idle" /\ Wrote("update", "compensate", Dbvs1, TRUE)) =>
              (IsError /\ store = pre)

C27_Witness ==
    /\ UpgradeInPlace
    /\ pc = "idle"
    /\ Wrote("update", "forward", Dbvs1, TRUE)
    /\ Wrote("update", "compensate", Dbvs1, TRUE)
    /\ loc.current_year = 3
    /\ store = pre

----------------------------------------------------------------------------
(* C28 *)

\* an upgrade from year 2 to 3 is in flight or has ended
UpgradeAcross ==
    /\ op = "upgrade_student_year"
    /\ "current_year" \in DOMAIN loc
    /\ loc.current_year = 2

OldOf(server_name) == IF server_name = "DBVS1" THEN "db11" ELSE "db21"

NewOf(server_name) == IF server_name = "DBVS1" THEN "db12" ELSE "db22"

\* the forward add to the new partition comes before the forward delete
\* from the old one, and a failed add leaves the domain as it was
AddThenDelete(server_name) ==
    /\ \A j \in Writes :
          (log[j].role = "forward" /\ log[j].call = "delete"
              /\ log[j].db = OldOf(server_name)) =>
             \E i \in 1..(j - 1) :
                 /\ log[i].role = "forward"
                 /\ log[i].call = "add"
                 /\ log[i].db = NewOf(server_name)
                 /\ log[i].ok
    /\ Wrote("add", "forward", {NewOf(server_name)}, FALSE) =>
          \A db \in {OldOf(server_name), NewOf(server_name)} :
              Rows(store, db, "students") = Rows(pre, db, "students")

\* the record is in the old partition only, as it was
OnlyInOld(server_name) ==
    /\ AsBefore(OldOf(server_name), "students", loc.sid)
    /\ Rows(store, OldOf(server_name), "students")[loc.sid].metadata["study_year"] = 2
    /\ loc.sid \notin Ids(store, NewOf(server_name), "students")

DeleteFromOldFailed(server_name) ==
    Wrote("delete", "forward", {OldOf(server_name)}, FALSE)

\* C28 as stated: when the delete from the old partition fails, the copy
\* added to the new partition is removed and the domain ends with the
\* record in the old partition only.
C28_Original ==
    UpgradeAcross =>
        \A server_name \in {"DBVS1", "DBVS2"} :
            /\ AddThenDelete(server_name)
            /\ (pc = "idle" /\ DeleteFromOldFailed(server_name)) => OnlyInOld(server_name)

\* C28: in an upgrade from year 2 to 3 each domain is given the add to the
\* new partition before the delete from the old one; a failed add leaves
\* the domain unchanged; when the delete from the old partition fails and
\* the compensating delete from the new partition succeeds, the domain
\* ends with the record in the old partition only, with study_year 2.
C28_MoveAcrossFragments ==
    UpgradeAcross =>
        \A server_name \in {"DBVS1", "DBVS2"} :
            /\ AddThenDelete(server_name)
            /\ (pc = "idle" /\ DeleteFromOldFailed(server_name)
                  /\ Wrote("delete", "compensate", {NewOf(server_name)}, TRUE)) =>
                  OnlyInOld(server_name)

C28_Witness ==
    /\ UpgradeAcross
    /\ pc = "idle"
    /\ DeleteFromOldFailed("DBVS2")
    /\ Wrote("delete", "compensate", {"db22"}, TRUE)
    /\ OnlyInOld("DBVS2")

----------------------------------------------------------------------------
(* C29 *)

\* insert_student has allocated the id of the new student
InsertAllocated ==
    /\ op = "insert_student"
    /\ pc # "insert_allocate"
    /\ "student_id_int" \in DOMAIN loc

\* the greatest numeric id of the students records of the four partitions
\* when the request began, 0 if there is none
GreatestStudentId ==
    LET nums == {n \in 1..Len(Numerals) :
                    \E db \in {"db11", "db12", "db21", "db22"} :
                        Numerals[n] \in Ids(pre, db, "students")}
    IN  IF nums = {} THEN 0 ELSE Max(nums)

\* C29: the id that insert_student assigns is m + 1, m being the greatest
\* numeric id among the students records of the four partitions (0 without
\* any), and no students record of any partition has that id.
C29_Claim ==
    InsertAllocated =>
        /\ loc.student_id_int = GreatestStudentId + 1
        /\ \A db \in DBs : loc.student_id \notin Ids(pre, db, "students")

----------------------------------------------------------------------------
(* C30 *)

\* call j is the update that follows the failed add i of the same row
Fallback(i, j) ==
    /\ j = i + 1
    /\ j <= Len(log)
    /\ log[i].call = "add"
    /\ log[i].role = "forward"
    /\ ~log[i].ok
    /\ log[j].call = "update"
    /\ log[j].role = "forward"
    /\ log[j].db = log[i].db
    /\ log[j].coll = log[i].coll
    /\ log[j].ids = log[i].ids

FailedForward == {i \in Writes : log[i].role = "forward" /\ ~log[i].ok}

\* C30 as stated: a failed forward write is followed by compensating
\* writes only.
C30_Original ==
    \A i \in FailedForward : \A j \in Writes : j > i => log[j].role = "compensate"

\* C30: a failed forward add may be followed by one forward update of the
\* same row in the same collection; a forward write that fails, and whose
\* update, if it is such an add, fails too or is not made, is followed by
\* compensating writes only.
C30_NoRetryButUpsert ==
    \A i \in FailedForward :
        ~(Fallback(i, i + 1) /\ log[i + 1].ok) =>
            \A j \in Writes : j > i => (log[j].role = "compensate" \/ Fallback(i, j))

C30_Witness ==
    /\ Done("move_course")
    /\ \E i \in FailedForward :
          /\ Fallback(i, i + 1)
          /\ ~log[i + 1].ok
          /\ \E j \in Writes : j > i + 1 /\ log[j].role = "compensate"

----------------------------------------------------------------------------
(* C31 *)

RolledBackReport == "Insert into DBVS2 failed (rolled back DBVS1)"

BothFailuresReport == "Insert into DBVS2 failed; Rollback of DBVS1 also failed"

\* C31: after a failed write to DBVS2, insert_student answers one error:
\* the one that says DBVS1 was rolled back exactly when the compensating
\* delete of the academic record succeeded, the record then being gone, and
\* otherwise the one that names both the failed write and the failed
\* rollback.
C31_InsertFailureReports ==
    (Done("insert_student") /\ InsertDbvs2Failed) =>
        /\ resp.status = 500
        /\ resp.detail \in {RolledBackReport, BothFailuresReport}
        /\ resp.detail = RolledBackReport <=>
              Wrote("delete", "compensate", {loc.db_dbvs1}, TRUE)
        /\ resp.detail = RolledBackReport =>
              loc.student_id \notin Ids(store, loc.db_dbvs1, "students")
        /\ resp.detail = BothFailuresReport <=>
              Wrote("delete", "compensate", {loc.db_dbvs1}, FALSE)

C31_Witness ==
    /\ Done("insert_student")
    /\ InsertDbvs2Failed
    /\ resp.detail = BothFailuresReport
    /\ Wrote("delete", "compensate", {loc.db_dbvs1}, FALSE)
    /\ loc.student_id \in Ids(store, loc.db_dbvs1, "students")

----------------------------------------------------------------------------
(* detect_metadata_type *)

\* what a pydantic model raises when the metadata does not fit it
ValidationError == Http(500, "ValidationError")

\* an int field given an int, or a str that int() reads
IsIntValue(v) == v.kind = "int" \/ (v.kind = "str" /\ IsNumeral(v.text))

\* a float field given a float or an int, or a str that float() reads
IsFloatValue(v) == v.kind \in {"float", "int"} \/ (v.kind = "str" /\ IsNumeral(v.text))

\* DBVS1Metadata without extra = "forbid"
DBVS1Metadata_extra_ignored(metadata) ==
    /\ {"final_score", "study_year"} \subseteq DOMAIN metadata
    /\ IsFloatValue(metadata["final_score"])
    /\ IsIntValue(metadata["study_year"])

\* lines 29-35: final_score and study_year required, timestamp optional,
\* no other field
DBVS1Metadata(metadata) ==
    /\ DOMAIN metadata \subseteq {"timestamp", "final_score", "study_year"}
    /\ {"final_score", "study_year"} \subseteq DOMAIN metadata
    /\ IsFloatValue(metadata["final_score"])
    /\ IsIntValue(metadata["study_year"])

\* lines 38-46: name, surname, email and study_year required, student_id
\* optional, no other field
DBVS2Metadata(metadata) ==
    /\ DOMAIN metadata \subseteq {"student_id", "name", "surname", "email", "study_year"}
    /\ {"name", "surname", "email", "study_year"} \subseteq DOMAIN metadata
    /\ IsIntValue(metadata["study_year"])

\* lines 91-99
detect_metadata_type(metadata) ==
    IF "final_score" \in DOMAIN metadata
        THEN (IF DBVS1Metadata(metadata) THEN Http(200, "DBVS1") ELSE ValidationError)
    ELSE IF \A k \in {"name", "surname", "email", "study_year"} : k \in DOMAIN metadata
        THEN (IF DBVS2Metadata(metadata) THEN Http(200, "DBVS2") ELSE ValidationError)
    ELSE Http(400, "Invalid metadata structure.")

\* the values that the metadata of a call gives a field
FieldValues(k) ==
    IF k = "final_score" THEN {Raw("float", "9.5"), Raw("str", "abc")}
    ELSE IF k = "study_year" THEN {Raw("int", "2"), Raw("str", "abc")}
    ELSE IF k = "student_id" THEN {Raw("int", "2")}
    ELSE {Raw("str", "abc")}

MetadataFields ==
    {"final_score", "study_year", "timestamp", "name", "surname", "email", "student_id"}

WellTyped(metadata) == \A k \in DOMAIN metadata : metadata[k] \in FieldValues(k)

detect_metadata_type_call(metadata) ==
    /\ Begin("detect_metadata_type", FALSE)
    /\ loc' = [metadata |-> metadata]
    /\ Finish(detect_metadata_type(metadata))
    /\ UNCHANGED store

DetectMetadataType ==
    \E ks \in SUBSET MetadataFields :
        \E metadata \in [ks -> {Raw("float", "9.5"), Raw("int", "2"), Raw("str", "abc")}] :
            WellTyped(metadata) /\ detect_metadata_type_call(metadata)

InitClassify ==
    /\ store = EmptyStore
    /\ pc = "idle"
    /\ op = "none"
    /\ loc = NoLoc
    /\ resp = NoResp
    /\ pre = store
    /\ log = <<>>
    /\ nreq = 0

SpecClassify == InitClassify /\ [][DetectMetadataType]_vars

----------------------------------------------------------------------------
(* C32 *)

Classified == pc = "idle" /\ op = "detect_metadata_type"

PersonalFields == {"name", "surname", "email", "study_year"}

\* C32 as stated: the presence of the fields alone decides: DBVS1 with
\* final_score, else DBVS2 with the four personal fields, else the error
\* of invalid metadata
C32_Original ==
    Classified =>
        resp = (IF "final_score" \in DOMAIN loc.metadata
                   THEN Http(200, "DBVS1")
                ELSE IF PersonalFields \subseteq DOMAIN loc.metadata
                   THEN Http(200, "DBVS2")
                ELSE Http(400, "Invalid metadata structure."))

\* the fields are those of the list, those of required among them, and
\* final_score and study_year, where present, are numbers
Fits(metadata, allowed, required) ==
    /\ DOMAIN metadata \subseteq allowed
    /\ required \subseteq DOMAIN metadata
    /\ \A k \in DOMAIN metadata \cap {"final_score", "study_year"} :
          metadata[k].kind # "str" \/ IsNumeral(metadata[k].text)

\* C32: detect_metadata_type takes the academic branch whenever
\* final_score is present and answers DBVS1 if the metadata is a valid
\* academic one (final_score, study_year, optionally timestamp, nothing
\* else), failing with a validation error otherwise, so also when personal
\* fields are present; without final_score and with name, surname, email
\* and study_year it answers DBVS2 if the metadata is a valid personal one
\* (optionally student_id, nothing else), failing with a validation error
\* otherwise; in every other case it fails with invalid metadata.
C32_ClassifyByPrecedence ==
    Classified =>
        LET m == loc.metadata
        IN  resp = (IF "final_score" \in DOMAIN m
                       THEN (IF Fits(m, {"final_score", "study_year", "timestamp"},
                                     {"final_score", "study_year"})
                                THEN Http(200, "DBVS1") ELSE Http(500, "ValidationError"))
                    ELSE IF PersonalFields \subseteq DOMAIN m
                       THEN (IF Fits(m, PersonalFields \cup {"student_id"}, PersonalFields)
                                THEN Http(200, "DBVS2") ELSE Http(500, "ValidationError"))
                    ELSE Http(400, "Invalid metadata structure."))

C32_Witness ==
    /\ Classified
    /\ {"final_score"} \cup PersonalFields \subseteq DOMAIN loc.metadata
    /\ loc.metadata["final_score"].kind = "float"
    /\ loc.metadata["study_year"].kind = "int"
    /\ resp = Http(500, "ValidationError")

----------------------------------------------------------------------------
(* C33 *)

\* the partitions among dbs whose students collection holds the id
StudentHolders(st, dbs, id) == {db \in dbs : id \in Ids(st, db, "students")}

\* C33: between requests every student id is in at most one partition of
\* DBVS1 and in at most one partition of DBVS2; the initial states have it,
\* and insert_student, upgrade_student_year and delete_student run with
\* faults at any of their steps, compensations included.
C33_Claim ==
    pc = "idle" =>
        \A id \in AllStudentIds(store) :
            /\ Cardinality(StudentHolders(store, {"db11", "db12"}, id)) <= 1
            /\ Cardinality(StudentHolders(store, {"db21", "db22"}, id)) <= 1

----------------------------------------------------------------------------
(* C34 *)

\* the partition of a domain for a study_year: years 1 and 2 in db11 and
\* db21, years 3 and 4 in db12 and db22
PlaceOf(db, y) ==
    IF y \in {1, 2} THEN db \in {"db11", "db21"}
    ELSE IF y \in {3, 4} THEN db \in {"db12", "db22"}
    ELSE FALSE

\* every student record is in the partition of its study_year
WellPlaced(st) ==
    \A db \in DBs : \A id \in Ids(st, db, "students") :
        /\ "study_year" \in DOMAIN Rows(st, db, "students")[id].metadata
        /\ PlaceOf(db, Rows(st, db, "students")[id].metadata["study_year"])

\* the academic and the personal records of every id are in paired
\* partitions
Paired(st) ==
    \A id \in AllStudentIds(st) :
        \A a \in StudentHolders(st, {"db11", "db12"}, id) :
            \A p \in StudentHolders(st, {"db21", "db22"}, id) :
                (a = "db11" /\ p = "db21") \/ (a = "db12" /\ p = "db22")

\* C34: every students record lies in the partition whose year range holds
\* its study_year, in every state that insert_student,
\* upgrade_student_year and delete_student reach, with or without faults,
\* from initial states of which this is true; and, between requests, the
\* academic and the personal records of a student lie in paired partitions.
C34_Claim ==
    /\ WellPlaced(store)
    /\ pc = "idle" => Paired(store)

----------------------------------------------------------------------------
(* C35 *)

\* the personal partitions that hold the course in st
CourseIn(st, course_id_str) ==
    {db \in Dbvs2 : course_id_str \in Ids(st, db, "courses")}

\* every course is in one personal partition, and every review whose
\* course_id names a course is in the academic partition paired with it
CoLocated(st) ==
    /\ \A c \in UNION {Ids(st, db, "courses") : db \in Dbvs2} :
          Cardinality(CourseIn(st, c)) = 1
    /\ \A db1 \in Dbvs1 : \A rid \in Ids(st, db1, "course_review") :
          LET meta == Rows(st, db1, "course_review")[rid].metadata
          IN  "course_id" \in DOMAIN meta =>
                  \A db2 \in CourseIn(st, Str(meta["course_id"])) :
                      db1 = PairedAcademic(db2)

\* C35: a request of add_course_review, move_course, upgrade_course or
\* delete_course in which no partition call raised, begun in a state where
\* every review of an existing course is in the academic partition paired
\* with the personal partition of the course, ends in such a state.
C35_ReviewsStayCoLocated ==
    (pc = "idle" /\ op \in CourseHandlers /\ FaultFree /\ CoLocated(pre)) =>
        CoLocated(store)

\* a fault-free move of a course with reviews to the other partition
C35_Witness ==
    /\ Done("move_course")
    /\ FaultFree
    /\ resp.status = 200
    /\ CoLocated(pre)
    /\ pre # store
    /\ \E rid \in Ids(store, "db11", "course_review") \ Ids(pre, "db11", "course_review") :
          rid \in Ids(pre, "db12", "course_review")

----------------------------------------------------------------------------
(* The operations that move a record between partitions: upgrade_student_year *)
(* and move_course, from the initial states of both                      *)

InitMoves ==
    /\ store \in SeedStores \cup CourseSeedStores
    /\ pc = "idle"
    /\ op = "none"
    /\ loc = NoLoc
    /\ resp = NoResp
    /\ pre = store
    /\ log = <<>>
    /\ nreq = 0

NextMoves == UpgradeStudentYear \/ MoveCourse

SpecMoves == InitMoves /\ [][NextMoves]_vars

----------------------------------------------------------------------------
(* C36 *)

\* upgrade_student_year is past its checks, with a student to move from
\* one partition to another in each domain
UpgradeMoving ==
    /\ op = "upgrade_student_year"
    /\ "current_year" \in DOMAIN loc
    /\ resolve_fragment("DBVS1", loc.current_year)
           # resolve_fragment("DBVS1", loc.new_year)

\* move_course is past its scan, with the course and its linked rows
CourseMoving == op = "move_course" /\ "ent" \in DOMAIN loc

\* the student is in the old or in the new partition of the domain
StudentPresent(server_name) ==
    loc.sid \in Ids(store, resolve_fragment(server_name, loc.current_year), "students")
                    \cup Ids(store, resolve_fragment(server_name, loc.new_year),
                             "students")

\* the entity is in the source or in the target
EntityPresent(e) ==
    e.id \in Ids(store, loc.source_db2, e.coll) \cup Ids(store, loc.target_db2, e.coll)

\* the review is in the academic partition paired with the source or with
\* the target
ReviewPresent(rid) ==
    rid \in Ids(store, loc.src_db1, "course_review")
                \cup Ids(store, loc.tgt_db1, "course_review")

\* C36: in every state of upgrade_student_year from its first write to its
\* answer, rollback included, the student is in the old or in the new
\* partition of each domain; in every state of move_course from its first
\* write to its answer, rollback included, the course, the exam and the
\* program that it found, and every review of the course, are in the source
\* or in the target partition.
C36_AddBeforeDelete ==
    /\ UpgradeMoving => StudentPresent("DBVS1") /\ StudentPresent("DBVS2")
    /\ CourseMoving =>
          /\ \A x \in DOMAIN loc.ent : loc.ent[x].has => EntityPresent(loc.ent[x])
          /\ \A rid \in MatchingReviews(pre, loc.src_db1, loc.course_id_str) :
                ReviewPresent(rid)

\* the delete from the old partition has failed after the add to the new
\* one, in an upgrade or in a move of a course
C36_Witness ==
    /\ pc # "idle"
    /\ Len(log) >= 2
    /\ log[Len(log)].call = "delete" /\ ~log[Len(log)].ok
    /\ log[Len(log) - 1].call = "add" /\ log[Len(log) - 1].ok
    /\ \/ UpgradeMoving /\ pc = "upgrade_compensate"
       \/ CourseMoving

----------------------------------------------------------------------------
(* C37 *)

\* the record that upgrade_student_year located in the domain
LocatedIn(server_name) == IF server_name = "DBVS1" THEN loc.s1 ELSE loc.s2

\* the located record of the domain is in the partition of the new year,
\* and in no other, with its document and its metadata but for a
\* study_year greater by one
OnlyYearRaised(server_name) ==
    LET was == LocatedIn(server_name)
        to  == resolve_fragment(server_name, loc.new_year)
    IN  /\ loc.new_year = was.meta["study_year"] + 1
        /\ loc.sid \in Ids(store, to, "students")
        /\ to # was.db => loc.sid \notin Ids(store, was.db, "students")
        /\ LET now == Rows(store, to, "students")[loc.sid]
           IN  /\ now.document = was.doc
               /\ DOMAIN now.metadata = DOMAIN was.meta
               /\ now.metadata["study_year"] = loc.new_year
               /\ \A k \in DOMAIN was.meta \ {"study_year"} :
                     now.metadata[k] = was.meta[k]

\* every students record but the two located ones is where and as it was,
\* no record has appeared but the two upgraded ones, and every other
\* collection is as it was
OtherStudentsUntouched ==
    \A db \in DBs :
        /\ \A id \in Ids(pre, db, "students") :
              (db \notin {loc.s1.db, loc.s2.db} \/ id # loc.sid) =>
                  /\ id \in Ids(store, db, "students")
                  /\ Rows(store, db, "students")[id] = Rows(pre, db, "students")[id]
        /\ \A id \in Ids(store, db, "students") \ Ids(pre, db, "students") :
              /\ id = loc.sid
              /\ db \in {resolve_fragment("DBVS1", loc.new_year),
                         resolve_fragment("DBVS2", loc.new_year)}
        /\ \A coll \in Collections \ {"students"} : store[db][coll] = pre[db][coll]

\* C37: upgrade_student_year answered 200 has left the two records of the
\* student with the document and the metadata they had but for study_year,
\* which is greater by one in both, and has left the record of every other
\* student, and every other collection, as it was.
C37_Claim ==
    (Done("upgrade_student_year") /\ resp.status = 200) =>
        /\ OnlyYearRaised("DBVS1")
        /\ OnlyYearRaised("DBVS2")
        /\ OtherStudentsUntouched

\* the same for a student whose id is in one partition per domain when the
\* request begins
C37_OfUniqueId ==
    (Done("upgrade_student_year") /\ resp.status = 200 /\ OneRecordPerDomain) =>
        /\ OnlyYearRaised("DBVS1")
        /\ OnlyYearRaised("DBVS2")
        /\ OtherStudentsUntouched

----------------------------------------------------------------------------
(* C38 *)

\* the ids of the rows of coll that go with the course of the request: the
\* course itself; the exam of the same id, which delete_course deletes, and
\* the exam and the program that the metadata of the course names, which
\* move_course moves
LinkedTo(course_id_str, coll) ==
    LET metas == {Rows(pre, db, "courses")[course_id_str].metadata :
                     db \in CourseIn(pre, course_id_str)}
    IN  IF coll = "courses" THEN {course_id_str}
        ELSE IF coll = "exams"
            THEN {course_id_str} \cup UNION {LinkedId(m, "exam_id") : m \in metas}
        ELSE IF coll = "programs"
            THEN UNION {LinkedId(m, "program_id") : m \in metas}
        ELSE {}

\* the rows of the collection whose ids are not in ids are where and as
\* they were when the request began
SameBut(db, coll, ids) ==
    /\ Ids(store, db, coll) \ ids = Ids(pre, db, coll) \ ids
    /\ \A id \in Ids(pre, db, coll) \ ids :
          Rows(store, db, coll)[id] = Rows(pre, db, coll)[id]

\* the reviews of st in db whose course_id is that of the course
ReviewsOf(st, db, course_id_str) ==
    {rid \in Ids(st, db, "course_review") :
        LET meta == Rows(st, db, "course_review")[rid].metadata
        IN  "course_id" \in DOMAIN meta /\ Str(meta["course_id"]) = course_id_str}

\* C38: in every state of delete_course and of move_course on a course,
\* their answers and their rollbacks included, every other course, every
\* exam and program that is not linked to the course, every review of
\* another course and every student is, in every partition, as it was when
\* the request began.
C38_OthersUntouched ==
    (op \in {"delete_course", "move_course"} /\ "course_id_str" \in DOMAIN loc) =>
        \A db \in DBs :
            /\ store[db]["students"] = pre[db]["students"]
            /\ \A coll \in {"courses", "exams", "programs"} :
                  SameBut(db, coll, LinkedTo(loc.course_id_str, coll))
            /\ SameBut(db, "course_review",
                       ReviewsOf(pre, db, loc.course_id_str)
                           \cup ReviewsOf(store, db, loc.course_id_str))

\* a course has been moved, with its exam and a review, into the partitions
\* that hold another course, its exam and its review
C38_Witness ==
    /\ Done("move_course")
    /\ resp.status = 200
    /\ loc.course_id_str = "5"
    /\ "5" \in Ids(store, "db22", "courses") \ Ids(pre, "db22", "courses")
    /\ Ids(store, "db22", "exams") \ Ids(pre, "db22", "exams") # {}
    /\ ReviewsOf(store, "db12", "5") # {}
    /\ "6" \in Ids(store, "db22", "courses") \cap Ids(store, "db22", "exams")
    /\ "rv6" \in Ids(store, "db12", "course_review")

----------------------------------------------------------------------------
(* C39 *)

\* no students collection holds the id, and every record of another id is
\* where and as it was when the request began
GoneAndOthersKept(id) ==
    /\ \A db \in DBs : id \notin Ids(store, db, "students")
    /\ \A db \in DBs : SameBut(db, "students", {id})

\* C39: after delete_student answered 200 the id of the student is in the
\* students collection of no partition of either domain, and the record of
\* every other student is as it was.
C39_Claim ==
    (Done("delete_student") /\ resp.status = 200) => GoneAndOthersKept(loc.sid)

\* the same for a student whose id is in one partition per domain when the
\* request begins
C39_OfUniqueId ==
    (Done("delete_student") /\ resp.status = 200 /\ OneRecordPerDomain) =>
        GoneAndOthersKept(loc.sid)

----------------------------------------------------------------------------
(* find_related_document_to_policy, and the reads beside the student       *)
(* handlers                                                                *)

ReadCollections == {"support_tickets", "documents"}

\* lines 811-817
find_related_target_db(source_db) == IF source_db = "db11" THEN "db21" ELSE "db22"

\* lines 788-806: the first database of DBVS1, in order, whose
\* support_tickets collection can be had and holds the ticket
locate_ticket(st, ticket_id, skipped) ==
    LET dbs == Databases("DBVS1")
        hits == {i \in 1..Len(dbs) :
                    dbs[i] \notin skipped /\ ticket_id \in Ids(st, dbs[i], "support_tickets")}
    IN  IF hits = {} THEN [found |-> FALSE, db |-> None, doc |-> None]
        ELSE [found |-> TRUE, db |-> dbs[Min(hits)],
              doc |-> Rows(st, dbs[Min(hits)], "support_tickets")[ticket_id].document]

\* lines 826-829: the results that query may give for n_results = top_k, which
\* are top_k rows of the collection, or all of them if there are fewer;
\* which of them are the closest is left open
query(st, db, top_k) ==
    LET ids == Ids(st, db, "documents")
        n == IF Cardinality(ids) < top_k THEN Cardinality(ids) ELSE top_k
    IN  {S \in SUBSET ids : Cardinality(S) = n}

\* as the handler, and filing the document of the ticket among the
\* documents of the target
find_related_document_to_policy_filed(ticket_id, top_k, skipped, raised, outcome) ==
    /\ Begin("find_related_document_to_policy", raised \/ skipped # {} \/ outcome # "ok")
    /\ LET t == locate_ticket(store, ticket_id, skipped)
       IN  /\ (raised \/ ~t.found) => outcome = "ok"
           /\ IF raised \/ ~t.found
                 THEN /\ Finish(IF raised THEN Unhandled
                                ELSE Http(404, "Ticket not found in DBVS1."))
                      /\ loc' = [ticket_id |-> ticket_id]
                      /\ UNCHANGED store
                 ELSE /\ Finish(Http(200, "documents"))
                      /\ loc' = [ticket_id |-> ticket_id, source_db |-> t.db,
                                 target_db |-> find_related_target_db(t.db),
                                 documents |-> {}]
                      /\ store' = CollAdd(store, find_related_target_db(t.db),
                                          "documents", ticket_id, t.doc, EmptyMap)

\* lines 778-852.  skipped: the databases whose get_collection raised in
\* the scan; raised: a get_client or a get of the scan raised; outcome "no
\* collection": get_collection("documents") raised; "raise": get_client or
\* query raised.  Line 817 is not reached: the scan gives db11 or db12.
find_related_document_to_policy(ticket_id, top_k, skipped, raised, outcome) ==
    /\ Begin("find_related_document_to_policy", raised \/ skipped # {} \/ outcome # "ok")
    /\ LET t == locate_ticket(store, ticket_id, skipped)
           target_db == find_related_target_db(t.db)
       IN  /\ (raised \/ ~t.found) => outcome = "ok"
           /\ IF raised
                 THEN Finish(Unhandled) /\ loc' = [ticket_id |-> ticket_id]
              ELSE IF ~t.found
                 THEN /\ Finish(Http(404, "Ticket not found in DBVS1."))
                      /\ loc' = [ticket_id |-> ticket_id]
              ELSE IF outcome = "no collection"
                 THEN /\ Finish(Http(404, "'documents' collection not found"))
                      /\ loc' = [ticket_id |-> ticket_id, source_db |-> t.db,
                                 target_db |-> target_db]
              ELSE IF outcome = "raise"
                 THEN /\ Finish(Http(500, "Vector similarity query failed"))
                      /\ loc' = [ticket_id |-> ticket_id, source_db |-> t.db,
                                 target_db |-> target_db]
              ELSE /\ Finish(Http(200, "documents"))
                   /\ \E documents \in query(store, target_db, top_k) :
                         loc' = [ticket_id |-> ticket_id, source_db |-> t.db,
                                 target_db |-> target_db, documents |-> documents]
    /\ UNCHANGED store

\* the tickets that requests name: t1 may exist, t9 does not
TicketIds == {"t1", "t9"}

FindRelatedDocumentToPolicy ==
    \E ticket_id \in TicketIds, top_k \in {1, 2},
       skipped \in SUBSET SeqRange(Databases("DBVS1")), raised \in BOOLEAN,
       outcome \in Faults :
       find_related_document_to_policy(ticket_id, top_k, skipped, raised, outcome)

\* st with ticket t1 in the support_tickets of the databases of holders, and
\* policy documents in the two databases of DBVS2
SeedTickets(st, holders) ==
    [db \in DBs |->
        [c \in Collections \cup ReadCollections |->
            IF c \in Collections THEN st[db][c]
            ELSE IF c = "support_tickets" /\ db \in holders
                THEN Put(EmptyMap, "t1", Row("refund", [topic |-> "refund"]))
            ELSE IF c = "documents" /\ db = "db21"
                THEN Put(Put(EmptyMap, "p1", Row("refund policy", [kind |-> "policy"])),
                         "p2", Row("privacy policy", [kind |-> "policy"]))
            ELSE IF c = "documents" /\ db = "db22"
                THEN Put(EmptyMap, "p3", Row("exam policy", [kind |-> "policy"]))
            ELSE EmptyMap]]

ReadSeedStores ==
    {SeedTickets(st, holders) :
        st \in SeedStores, holders \in {{}, {"db11"}, {"db12"}, {"db11", "db12"}}}

InitReads ==
    /\ store \in ReadSeedStores
    /\ pc = "idle"
    /\ op = "none"
    /\ loc = NoLoc
    /\ resp = NoResp
    /\ pre = store
    /\ log = <<>>
    /\ nreq = 0

NextReads ==
    GetAllStudents \/ FindRelatedDocumentToPolicy \/ InsertStudent \/ DeleteStudent

SpecReads == InitReads /\ [][NextReads]_vars

----------------------------------------------------------------------------
(* C40 *)

ReadOperations == {"get_all_students", "find_related_document_to_policy"}

\* C40: get_all_students and find_related_document_to_policy, whatever
\* they find stored and whatever they answer, call no add, update or
\* delete, and leave every collection of every partition as it was.
C40_ReadsChangeNothing ==
    (op \in ReadOperations) => (store = pre /\ NoWrites)

\* a ticket is found and the query fails, on a store that a request
\* before has written to
C40_Witness ==
    /\ Done("find_related_document_to_policy")
    /\ resp.status = 500
    /\ "source_db" \in DOMAIN loc
    /\ nreq = 2
    /\ store \notin ReadSeedStores

====
